---------------------------- MODULE Spec2Model ----------------------------
(***************************************************************************)
(* Model of the ME7 ROM structure-recovery tools of this repository:       *)
(*   me7_map_scanner.py  (search, check_dppx, calc_physical_address,       *)
(*                        dump_table, find_1d_maps)                        *)
(*   romscanner.py       (ME7Scanner: search_pattern, get_dpp_values,      *)
(*                        find_epk_info, extract_map_data)                 *)
(*   me7romtool.py       (ME7RomTool: find_pattern, analyze_dppx_setup,    *)
(*                        extract_map_data)                                *)
(*   me7_ferrari_scanner.py (ME7RomAdvancedScanner: extract_map_table)     *)
(*   fls_compare.py      (find_byte_differences, main)                     *)
(*                                                                         *)
(* Spec is the call-and-return model of the scanners, ScanSpec runs their  *)
(* scan loops pass by pass, CompareSpec is the file comparison.            *)
(*                                                                         *)
(* A ROM image is a byte string.  It is kept as its length and an explicit *)
(* head; the bytes after the head are 0x00, so that images of the real     *)
(* sizes (512 KiB, 1 MiB) can be states of the model.  Python's None is    *)
(* the empty tuple and a present value v is <<v>>.                         *)
(***************************************************************************)
EXTENDS Integers, Sequences, FiniteSets, TLC

VARIABLES
    rom,          \* the ROM image under analysis: [size, head]
    dpp1_value,   \* me7_map_scanner.py global dpp1_value
    ms_pc,        \* me7_map_scanner.py process: "run", or "exit" after sys.exit(1)
    dpp_values,   \* ME7Scanner.dpp_values: DPP0..DPP3, each None or a value
    out,          \* what the last operation returned or printed
    scan          \* the locals of the scan loop in progress: loop, pc, offset, map_count, reported

vars == <<rom, dpp1_value, ms_pc, dpp_values, out, scan>>

-----------------------------------------------------------------------------
(* Bounds of the model *)

MaxRomLen == 4        \* longest ROM of the exhaustive small family
MaxNeedleLen == 2     \* longest needle searched in the small family
MaxStart == 2         \* largest start_offset passed to a search
MaxTail == 1          \* bytes that follow a constructed structure
MaxValues == 3        \* longest list of cell values handed to the rejection rule

-----------------------------------------------------------------------------
(* Values *)

None == <<>>
Some(v) == <<v>>
IsSome(o) == o # <<>>
Val(o) == o[1]

Min(S) == CHOOSE m \in S : \A n \in S : m <= n

\* Python's  x & m  for m >= 0 (two's complement: floor division, x % 2 >= 0)
RECURSIVE BitAnd(_, _)
BitAnd(x, m) ==
    IF m = 0 THEN 0
    ELSE (x % 2) * (m % 2) + 2 * BitAnd(x \div 2, m \div 2)

\* Python's  x & ~m  for m >= 0: the bits of m cleared in x
AndNot(x, m) == x - BitAnd(x, m)

-----------------------------------------------------------------------------
(* The ROM image *)

\* len(rom_data)
RomLen(data) == data.size

\* data[i] for 0 <= i < len(data)
ByteAt(data, i) ==
    IF i < Len(data.head) THEN data.head[i + 1]
    ELSE IF data.at <= i /\ i < data.at + Len(data.chunk) THEN data.chunk[i - data.at + 1]
    ELSE 0

Explicit(h) == [size |-> Len(h), head |-> h, at |-> 0, chunk |-> <<>>]

\* an image of n bytes that holds the bytes c from offset a on and zeros elsewhere
Placed(n, a, c) == [size |-> n, head |-> <<>>, at |-> a, chunk |-> c]

Zeros(n) == [i \in 1..n |-> 0]

\* every byte string over S of length at most n
RECURSIVE SeqsUpTo(_, _)
SeqsUpTo(S, n) ==
    IF n = 0 THEN {<<>>}
    ELSE LET shorter == SeqsUpTo(S, n - 1)
         IN  shorter \cup {Append(s, b) : s \in {t \in shorter : Len(t) = n - 1}, b \in S}

Lo(w) == w % 256
Hi(w) == (w \div 256) % 256

-----------------------------------------------------------------------------
(* The pattern matchers *)

MASK == 255

\* me7_map_scanner.search, lines 224-228: position i matches when every byte
\* with a non-zero mask agrees with the needle under that mask
search_match(rom_data, needle, mask, i) ==
    \A j \in 0..(Len(needle) - 1) :
        \/ mask[j + 1] = 0
        \/ BitAnd(ByteAt(rom_data, i + j), mask[j + 1]) = BitAnd(needle[j + 1], mask[j + 1])

\* me7_map_scanner.search raises ValueError for a needle and mask of different lengths
search_raises(needle, mask) == Len(needle) # Len(mask)

\* me7_map_scanner.search, for len(needle) = len(mask): the first i of
\* range(start_offset, len(rom_data) - needle_len) that matches, else None
search(rom_data, needle, mask, start_offset) ==
    LET end == RomLen(rom_data) - Len(needle)
        hits == {i \in start_offset..(end - 1) : search_match(rom_data, needle, mask, i)}
    IN  IF end <= start_offset THEN None
        ELSE IF hits = {} THEN None
        ELSE Some(Min(hits))

\* ME7Scanner.search_pattern, lines 235-238: only mask bytes equal to MASK are compared
search_pattern_match(data, needle, mask, i) ==
    \A j \in 0..(Len(needle) - 1) :
        ~(mask[j + 1] = MASK /\ needle[j + 1] # ByteAt(data, i + j))

\* ME7Scanner.search_pattern with the loop run over range(start_offset,
\* len(data)): positions whose pattern would end past the buffer are tried
search_pattern_to_last_byte(data, needle, mask, start_offset) ==
    LET hits == {i \in start_offset..(RomLen(data) - 1) :
                    search_pattern_match(data, needle, mask, i)}
    IN  IF hits = {} THEN None ELSE Some(Min(hits))

\* ME7Scanner.search_pattern: the first i of range(start_offset, len(data) - needle_len)
search_pattern(data, needle, mask, start_offset) ==
    LET hits == {i \in start_offset..(RomLen(data) - Len(needle) - 1) :
                    search_pattern_match(data, needle, mask, i)}
    IN  IF hits = {} THEN None ELSE Some(Min(hits))

\* ME7Scanner.search_pattern at position i, for a needle and mask of any
\* lengths: mask[j] raises IndexError once j reaches len(mask)
search_pattern_at(data, needle, mask, i) ==
    LET stops == {j \in 0..(Len(needle) - 1) :
                    \/ j >= Len(mask)
                    \/ (mask[j + 1] = MASK /\ needle[j + 1] # ByteAt(data, i + j))}
    IN  IF stops = {} THEN "match"
        ELSE IF Min(stops) >= Len(mask) THEN "IndexError"
        ELSE "next"

\* ME7Scanner.search_pattern, which does not compare len(needle) with
\* len(mask): what it returns or raises, and whether it compared a byte of data
search_pattern_unchecked(data, needle, mask, start_offset) ==
    LET range == start_offset..(RomLen(data) - Len(needle) - 1)
        ends == {i \in range : search_pattern_at(data, needle, mask, i) # "next"}
        first == Min(ends)
    IN  [result |-> IF ends # {} /\ search_pattern_at(data, needle, mask, first) = "match"
                    THEN Some(first) ELSE None,
         raised |-> IF ends # {} /\ search_pattern_at(data, needle, mask, first) # "match"
                    THEN "IndexError" ELSE "",
         compared |-> /\ range # {}
                      /\ \E j \in 1..Len(mask) : j <= Len(needle) /\ mask[j] = MASK]

\* me7_map_scanner.search called with len(needle) # len(mask), lines 213-215:
\* ValueError is raised before any byte is read
search_mismatched(rom_data, needle, mask, start_offset) ==
    [result |-> None, raised |-> "ValueError", compared |-> FALSE]

\* ME7RomTool.find_pattern, lines 409-413
find_pattern_match(rom_data, pattern, mask, pos) ==
    \A i \in 0..(Len(pattern) - 1) :
        ~(mask[i + 1] # 0 /\ pattern[i + 1] # ByteAt(rom_data, pos + i))

\* ME7RomTool.find_pattern raises ValueError for a pattern and mask of different lengths
find_pattern_raises(rom_data, pattern, mask) ==
    RomLen(rom_data) > 0 /\ Len(pattern) # Len(mask)

\* ME7RomTool.find_pattern called with len(pattern) # len(mask), lines
\* 392-400: [] for an empty ROM, else ValueError before any byte is read
find_pattern_mismatched(rom_data, pattern, mask) ==
    IF find_pattern_raises(rom_data, pattern, mask)
    THEN [result |-> <<>>, raised |-> "ValueError", compared |-> FALSE]
    ELSE [result |-> <<>>, raised |-> "", compared |-> FALSE]

\* the elements of a set of integers in ascending order
RECURSIVE Ascending(_)
Ascending(S) == IF S = {} THEN <<>> ELSE <<Min(S)>> \o Ascending(S \ {Min(S)})

\* ME7RomTool.find_pattern: the list of matches over range(rom_size - pattern_len + 1);
\* outside debug mode the loop stops at the first one.  An empty ROM gives [].
find_pattern(rom_data, pattern, mask, debug) ==
    LET hits == {pos \in 0..(RomLen(rom_data) - Len(pattern)) :
                    find_pattern_match(rom_data, pattern, mask, pos)}
    IN  IF RomLen(rom_data) = 0 THEN <<>>
        ELSE IF hits = {} THEN <<>>
        ELSE IF debug THEN Ascending(hits)
        ELSE <<Min(hits)>>

-----------------------------------------------------------------------------
(* Reading words and translating addresses *)

SEGMENT_SIZE == 16384                  \* 0x4000
ROM_1MB_MASK == 1048576                \* me7_map_scanner.py: 0x100000
romscanner_ROM_1MB_MASK == 15728640    \* romscanner.py: 0xF00000

\* struct.unpack("<H", ...) of the two bytes at offset
Word(data, offset) == ByteAt(data, offset) + 256 * ByteAt(data, offset + 1)

\* me7_map_scanner.get16
get16(data, offset) ==
    IF offset + 2 > RomLen(data) THEN 0 ELSE Word(data, offset)

\* me7_map_scanner.get32
get32(data, offset) ==
    IF offset + 4 > RomLen(data) THEN 0
    ELSE Word(data, offset) + 65536 * Word(data, offset + 2)

\* me7_map_scanner.get_nwidth
get_nwidth(data, offset, nwidth) ==
    IF offset >= RomLen(data) THEN 0
    ELSE IF nwidth = 0 THEN 0
    ELSE IF nwidth = 1 THEN ByteAt(data, offset)
    ELSE IF nwidth = 2 THEN get16(data, offset)
    ELSE IF nwidth = 4 THEN get32(data, offset)
    ELSE 0

\* me7_map_scanner.calc_physical_address: <<physical_addr, rom_offset>>
calc_physical_address(segment, offset) ==
    LET physical_addr == (segment * SEGMENT_SIZE) + offset
    IN  <<physical_addr, AndNot(physical_addr, ROM_1MB_MASK)>>

\* me7_map_scanner.is_valid_table_address
is_valid_table_address(addr, rom_size) == 0 <= addr /\ addr < rom_size

\* romscanner.py, the translation repeated in find_maps (lines 468-469),
\* find_epk_info (328-329) and find_string_table (398-399): <<phys_addr, file_offset>>
romscanner_file_offset(seg, val) ==
    LET phys_addr == (seg * SEGMENT_SIZE) + val
    IN  <<phys_addr, AndNot(phys_addr, romscanner_ROM_1MB_MASK)>>

-----------------------------------------------------------------------------
(* The DPP setup *)

\* needle and mask of "mov DPP0..DPP3, #XXXXh"
dpp_needle == <<230, 0, 0, 0,  230, 1, 0, 0,  230, 2, 0, 0,  230, 3, 0, 0>>
dpp_mask == <<MASK, MASK, 0, 0,  MASK, MASK, 0, 0,  MASK, MASK, 0, 0,  MASK, MASK, 0, 0>>

\* me7_map_scanner.check_dppx, lines 754-766: where the setup was found and DPP0..DPP3
check_dppx_addr(rom_data) == search(rom_data, dpp_needle, dpp_mask, 0)

check_dppx_values(rom_data, addr) ==
    <<get16(rom_data, addr + 2), get16(rom_data, addr + 6),
      get16(rom_data, addr + 10), get16(rom_data, addr + 14)>>

\* ME7Scanner.get_dpp_values, lines 249-261
get_dpp_values_offset(data) == search_pattern(data, dpp_needle, dpp_mask, 0)

get_dpp_values_read(data, offset) ==
    [i \in 1..4 |-> Some(Word(data, offset + 2 + (i - 1) * 4))]

\* ME7RomTool.analyze_dppx_setup: the patterns it looks for
dpp_direct == <<247, 142, 230, 128>>
analyze_patterns ==
    << <<247, 142, 230, 128, 247, 142, 229, 128>>,
       <<247, 142, 230, 128, 243, 248, 231, 128>>,
       <<230, 128, 224, 28, 224, 253, 230, 254>> >>

AllFF(n) == [i \in 1..n |-> MASK]

\* 0x7746, the offset analyze_dppx_setup prints
analyze_match_offset == 30534

\* the dpp_info analyze_dppx_setup returns: seg of DPP0..DPP3
analyze_dpp_info == <<0, 517, 224, 3>>

\* ME7RomTool.analyze_dppx_setup: <<printed offset, returned segs>>, both None for {}
analyze_dppx_setup(rom_data, debug) ==
    LET direct == find_pattern(rom_data, dpp_direct, AllFF(4), debug)
        other == \E k \in 1..Len(analyze_patterns) :
                    find_pattern(rom_data, analyze_patterns[k], AllFF(8), debug) # <<>>
    IN  IF direct # <<>> THEN <<Some(analyze_match_offset), Some(analyze_dpp_info)>>
        ELSE IF other THEN <<Some(analyze_match_offset), Some(analyze_dpp_info)>>
        ELSE IF debug THEN <<Some(analyze_match_offset), Some(analyze_dpp_info)>>
        ELSE <<None, None>>

-----------------------------------------------------------------------------
(* Physical values.  A Python float is kept as the exact fraction <<n, d>>, *)
(* d > 0, in lowest terms.                                                  *)

Abs(x) == IF x < 0 THEN -x ELSE x

RECURSIVE GCD(_, _)
GCD(a, b) == IF b = 0 THEN a ELSE GCD(b, a % b)

Frac(n, d) ==
    LET g == GCD(Abs(n), Abs(d))
        sign == IF d < 0 THEN -1 ELSE 1
    IN  IF n = 0 THEN <<0, 1>> ELSE <<(sign * n) \div g, (sign * d) \div g>>

FracOfInt(n) == <<n, 1>>
FracMul(a, b) == Frac(a[1] * b[1], a[2] * b[2])
FracDiv(a, b) == Frac(a[1] * b[2], a[2] * b[1])
FracSub(a, b) == Frac(a[1] * b[2] - b[1] * a[2], a[2] * b[2])

-----------------------------------------------------------------------------
(* me7_map_scanner.py: table definitions and dump_table *)

\* TableDef.__init__: the default entry definitions, conv '1.0', otype '/'
DefaultEntry == [conv |-> <<1, 1>>, otype |-> "/", conv2 |-> None]

TableDef(x_num_width, y_num_width, x_axis_width, y_axis_width, cell_width) ==
    [x_num_nwidth |-> x_num_width, y_num_nwidth |-> y_num_width,
     x_axis_nwidth |-> x_axis_width, y_axis_nwidth |-> y_axis_width,
     cell_nwidth |-> cell_width,
     x_axis |-> DefaultEntry, y_axis |-> DefaultEntry, cell |-> DefaultEntry]

XXXX_table == TableDef(1, 1, 1, 2, 2)
XXXXB_table == TableDef(1, 0, 1, 0, 1)

\* convert_value with the default operation '/' taken for '*'
convert_value_times(raw_value, conv_info) ==
    FracMul(FracOfInt(raw_value), conv_info.conv)

\* dump_table.convert_value, for a non-zero conv
convert_value(raw_value, conv_info) ==
    LET raw == FracOfInt(raw_value)
        sub(result) == IF IsSome(conv_info.conv2)
                       THEN FracSub(result, Val(conv_info.conv2)) ELSE result
    IN  IF conv_info.otype = "*" THEN FracMul(raw, conv_info.conv)
        ELSE IF conv_info.otype = "x" THEN sub(FracMul(raw, conv_info.conv))
        ELSE IF conv_info.otype = "d" THEN sub(FracDiv(raw, conv_info.conv))
        ELSE FracDiv(raw, conv_info.conv)

\* dump_table, lines 328-342: the counts read from the table header,
\* <<x_num, y_num>>, before they are capped
dump_header(rom_data, table_addr, segment, table_def) ==
    LET table_start == calc_physical_address(segment, table_addr)[2]
    IN  <<get_nwidth(rom_data, table_start, table_def.x_num_nwidth),
          get_nwidth(rom_data, table_start + table_def.x_num_nwidth, table_def.y_num_nwidth)>>

\* the counts dump_table works with: a count above 50 is replaced by 20
dump_cap(num) == IF num > 50 THEN 20 ELSE num

\* one printed cell of dump_table: the value read at adr, or None for "???"
dump_cell(rom_data, adr, table_def) ==
    IF is_valid_table_address(adr, RomLen(rom_data))
    THEN Some(get_nwidth(rom_data, adr, table_def.cell_nwidth))
    ELSE None

dump_phy(cell, table_def) ==
    IF IsSome(cell) THEN Some(convert_value(Val(cell), table_def.cell)) ELSE None

\* dump_table, lines 446-486: the single row of a 1D table
dump_row_1d(rom_data, cell_data_start, x_num, table_def, show) ==
    LET cells == [i \in 1..x_num |->
                    dump_cell(rom_data, cell_data_start + ((i - 1) * table_def.cell_nwidth),
                              table_def)]
    IN  [phy |-> IF show.phy THEN Some([i \in 1..x_num |-> dump_phy(cells[i], table_def)])
                 ELSE None,
         hex |-> IF show.hex THEN Some(cells) ELSE None]

\* dump_table, lines 489-547: row y_pos of a 2D table.  A row whose y-axis
\* entry is out of range is skipped.  The HEX and ADR lines format an int
\* with a precision, which raises ValueError: the row ends with "Error
\* processing row" after its PHY line.
dump_row_2d(rom_data, y_axis_start, cell_data_start, x_num, y_num, y_pos, table_def, show) ==
    LET y_axis_adr == y_axis_start + (y_pos * table_def.y_axis_nwidth)
        y_axis_value_raw == get_nwidth(rom_data, y_axis_adr, table_def.y_axis_nwidth)
        cell_adr(x_pos) == cell_data_start + (x_pos * (y_num * table_def.cell_nwidth))
                           + (y_pos * table_def.cell_nwidth)
        cells == [i \in 1..x_num |-> dump_cell(rom_data, cell_adr(i - 1), table_def)]
    IN  IF ~is_valid_table_address(y_axis_adr, RomLen(rom_data)) THEN None
        ELSE Some([y_axis |-> convert_value(y_axis_value_raw, table_def.y_axis),
                   phy |-> IF show.phy
                           THEN Some([i \in 1..x_num |-> dump_phy(cells[i], table_def)])
                           ELSE None,
                   error |-> show.hex \/ show.adr])

\* me7_map_scanner.dump_table: what it prints
dump_table(rom_data, table_addr, segment, table_def, cell_table_override_adr, show) ==
    LET size == RomLen(rom_data)
        rom_adr == calc_physical_address(segment, table_addr)[1]
        table_start == calc_physical_address(segment, table_addr)[2]
        start2 == calc_physical_address(0, AndNot(cell_table_override_adr, ROM_1MB_MASK))[2]
        table_start2 == IF cell_table_override_adr # 0 /\ is_valid_table_address(start2, size)
                        THEN start2 ELSE 0
        x_num_data_start == table_start
        read_x_num == get_nwidth(rom_data, x_num_data_start, table_def.x_num_nwidth)
        x_num == dump_cap(read_x_num)
        y_num_data_start == table_start + table_def.x_num_nwidth
        read_y_num == get_nwidth(rom_data, y_num_data_start, table_def.y_num_nwidth)
        y_num == dump_cap(read_y_num)
        x_axis_header_data_start == y_num_data_start + table_def.y_num_nwidth
        y_axis_header_data_start == x_axis_header_data_start + (x_num * table_def.x_axis_nwidth)
        cell_data_start == IF cell_table_override_adr = 0
                           THEN y_axis_header_data_start + (y_num * table_def.y_axis_nwidth)
                           ELSE table_start2
        cell_data_size == IF y_num > 0 THEN x_num * y_num * table_def.cell_nwidth
                          ELSE x_num * table_def.cell_nwidth
        x_raw == [i \in 1..x_num |->
                    get_nwidth(rom_data,
                               x_axis_header_data_start + ((i - 1) * table_def.x_axis_nwidth),
                               table_def.x_axis_nwidth)]
    IN  IF ~is_valid_table_address(table_start, size)
        THEN [status |-> "Table address out of range"]
        ELSE IF ~is_valid_table_address(x_num_data_start, size)
        THEN [status |-> "X-num address out of range"]
        ELSE IF ~is_valid_table_address(y_num_data_start, size)
        THEN [status |-> "Y-num address out of range"]
        ELSE IF x_num > 0
                /\ ~is_valid_table_address(
                        x_axis_header_data_start + (x_num * table_def.x_axis_nwidth) - 1, size)
        THEN [status |-> "X-axis data extends beyond file boundary"]
        ELSE IF y_num > 0
                /\ ~is_valid_table_address(
                        y_axis_header_data_start + (y_num * table_def.y_axis_nwidth) - 1, size)
        THEN [status |-> "Y-axis data extends beyond file boundary"]
        ELSE [status |-> "dumped",
              address |-> rom_adr,
              x_num |-> x_num,
              y_num |-> y_num,
              cell_warning |-> ~is_valid_table_address(cell_data_start + cell_data_size - 1, size),
              x_phy |-> IF show.phy
                        THEN Some([i \in 1..x_num |-> convert_value(x_raw[i], table_def.x_axis)])
                        ELSE None,
              x_hex |-> IF show.hex THEN Some(x_raw) ELSE None,
              rows |-> IF y_num = 0
                       THEN <<dump_row_1d(rom_data, cell_data_start, x_num, table_def, show)>>
                       ELSE [y \in 1..y_num |->
                                dump_row_2d(rom_data, y_axis_header_data_start, cell_data_start,
                                            x_num, y_num, y - 1, table_def, show)]]

-----------------------------------------------------------------------------
(* romscanner.py: ME7Scanner.extract_map_data *)

\* bytes.find(sub, start, end) != -1
Contains(data, sub, start, end) ==
    \E i \in start..(end - Len(sub)) :
        \A k \in 1..Len(sub) : ByteAt(data, i + k - 1) = sub[k]

Max2(a, b) == IF a > b THEN a ELSE b
Min2(a, b) == IF a < b THEN a ELSE b

\* identify_map_type.signatures, in dictionary order: b'KFAGK', b'KFPED', ...
signatures ==
    << [map_type |-> "KFAGK",  signature |-> <<75, 70, 65, 71, 75>>],
       [map_type |-> "KFPED",  signature |-> <<75, 70, 80, 69, 68>>],
       [map_type |-> "KFKHFM", signature |-> <<75, 70, 75, 72, 70, 77>>],
       [map_type |-> "KFNW",   signature |-> <<75, 70, 78, 87>>],
       [map_type |-> "KFZW",   signature |-> <<75, 70, 90, 87>>] >>

search_range == 256

\* ME7Scanner.identify_map_type: the first signature found within search_range
\* bytes of offset, else the generic name (kept without the offset it embeds)
identify_map_type(data, offset) ==
    LET start == Max2(0, offset - search_range)
        end == Min2(RomLen(data), offset + search_range)
        found == {k \in 1..Len(signatures) :
                    Contains(data, signatures[k].signature, start, end)}
    IN  IF found = {} THEN "MAP_0x" ELSE signatures[Min(found)].map_type

MapDef(x_num_width, y_num_width, x_axis_width, y_axis_width, cell_width, x_axis_conv, y_axis_conv, cell_conv) ==
    [x_num_width |-> x_num_width, y_num_width |-> y_num_width,
     x_axis_width |-> x_axis_width, y_axis_width |-> y_axis_width,
     cell_width |-> cell_width,
     x_axis_conv |-> x_axis_conv, y_axis_conv |-> y_axis_conv, cell_conv |-> cell_conv]

\* KNOWN_MAPS.get(map_type, <the default definition>); the conversion factors
\* 0.025, 1.333333, 655.35, 4.0, 327.68, 1.3333 as fractions
KNOWN_MAPS(map_type) ==
    IF map_type \in {"KFAGK", "KFKHFM", "KFNW"}
    THEN MapDef(1, 1, 1, 1, 1, <<1, 40>>, <<1333333, 1000000>>, <<1, 1>>)
    ELSE IF map_type = "KFPED"
    THEN MapDef(2, 2, 2, 2, 2, <<13107, 20>>, <<4, 1>>, <<8192, 25>>)
    ELSE IF map_type = "KFZW"
    THEN MapDef(1, 1, 1, 1, 1, <<1, 40>>, <<1333333, 1000000>>, <<13333, 10000>>)
    ELSE MapDef(1, 1, 1, 1, 1, <<1, 1>>, <<1, 1>>, <<1, 1>>)

\* the sanity ceiling on table dimensions
MAX_DIM == 50

\* extract_map_data reading its two byte elements high byte first
emd_read_big_endian(data, pos, width) ==
    IF pos + width <= RomLen(data)
    THEN IF width = 1 THEN ByteAt(data, pos)
         ELSE 256 * ByteAt(data, pos) + ByteAt(data, pos + 1)
    ELSE 0

\* extract_map_data: one element of `width` bytes at pos, 0 when it is not
\* wholly inside the data ("Out of range")
emd_read(data, pos, width) ==
    IF pos + width <= RomLen(data)
    THEN IF width = 1 THEN ByteAt(data, pos) ELSE Word(data, pos)
    ELSE 0

\* extract_map_data with no row of cells for a table without y dimension
emd_cell_data_rows_only(data, cell_start, x_size, y_size, cell_width) ==
    [y \in 1..y_size |-> [x \in 1..x_size |->
        emd_read(data, cell_start + (((y - 1) * x_size) + (x - 1)) * cell_width, cell_width)]]

\* extract_map_data, lines 594-627: y_size rows of x_size cells for a 2D map,
\* a single row for a 1D map
emd_cell_data(data, cell_start, x_size, y_size, cell_width) ==
    IF y_size > 0
    THEN [y \in 1..y_size |-> [x \in 1..x_size |->
            emd_read(data, cell_start + (((y - 1) * x_size) + (x - 1)) * cell_width,
                     cell_width)]]
    ELSE << [x \in 1..x_size |->
            emd_read(data, cell_start + (x - 1) * cell_width, cell_width)] >>

\* ME7Scanner.extract_map_data, for offset >= 0
ME7Scanner_extract_map_data(data, offset) ==
    LET map_type == identify_map_type(data, offset)
        map_def == KNOWN_MAPS(map_type)
        x_num_width == map_def.x_num_width
        y_num_width == map_def.y_num_width
        x_axis_width == map_def.x_axis_width
        y_axis_width == map_def.y_axis_width
        cell_width == map_def.cell_width
        x_size == IF x_num_width = 1 THEN ByteAt(data, offset) ELSE Word(data, offset)
        y_size == IF y_num_width = 0 THEN 0
                  ELSE IF y_num_width = 1 THEN ByteAt(data, offset + x_num_width)
                  ELSE Word(data, offset + x_num_width)
        x_axis_start == offset + x_num_width + y_num_width
        x_axis_data == [i \in 1..x_size |->
                          emd_read(data, x_axis_start + (i - 1) * x_axis_width, x_axis_width)]
        y_axis_start == x_axis_start + (x_size * x_axis_width)
        y_axis_data == [i \in 1..y_size |->
                          emd_read(data, y_axis_start + (i - 1) * y_axis_width, y_axis_width)]
        cell_start == IF y_size > 0 THEN y_axis_start + (y_size * y_axis_width)
                      ELSE x_axis_start + (x_size * x_axis_width)
        cell_data == emd_cell_data(data, cell_start, x_size, y_size, cell_width)
        conv(row, c) == [i \in 1..Len(row) |-> FracDiv(FracOfInt(row[i]), c)]
    IN  IF offset + x_num_width > RomLen(data)
        THEN [name |-> map_type, error |-> "Offset out of range"]
        ELSE IF y_num_width # 0 /\ ~(offset + x_num_width + y_num_width <= RomLen(data))
        THEN [name |-> map_type, error |-> "Y dimension out of range"]
        ELSE IF x_size > MAX_DIM \/ y_size > MAX_DIM
        THEN [name |-> map_type, error |-> "Suspicious dimensions",
              x_size |-> IF x_size <= MAX_DIM THEN Some(x_size) ELSE None,
              y_size |-> IF y_size <= MAX_DIM THEN Some(y_size) ELSE None]
        ELSE [name |-> map_type, error |-> "",
              x_size |-> x_size, y_size |-> y_size,
              x_axis_data |-> x_axis_data, y_axis_data |-> y_axis_data,
              cell_data |-> cell_data,
              x_axis_data_conv |-> conv(x_axis_data, map_def.x_axis_conv),
              y_axis_data_conv |-> conv(y_axis_data, map_def.y_axis_conv),
              cell_data_conv |-> [r \in 1..Len(cell_data) |->
                                    conv(cell_data[r], map_def.cell_conv)],
              x_num_width |-> x_num_width, y_num_width |-> y_num_width,
              x_axis_width |-> x_axis_width, y_axis_width |-> y_axis_width,
              cell_width |-> cell_width]

-----------------------------------------------------------------------------
(* me7romtool.py: ME7RomTool.extract_map_data *)

\* ME7RomTool.DATA_TYPES[...]['size'] of the integer types; 0 for an unknown type
DATA_TYPES_size(data_type) ==
    IF data_type = "byte" THEN 1
    ELSE IF data_type = "word" THEN 2
    ELSE IF data_type = "dword" THEN 4
    ELSE 0

\* struct.unpack('<' + fmt, rom_data[pos:pos+size]) for the unsigned formats B, H, I
unpack_unsigned(data, pos, size) ==
    IF size = 1 THEN ByteAt(data, pos)
    ELSE IF size = 2 THEN Word(data, pos)
    ELSE Word(data, pos) + 65536 * Word(data, pos + 2)

\* the axis loops of lines 147-167: the elements that lie inside the ROM; the
\* others are left out of the list
tool_axis(data, axis_addr, count, size, multiplier) ==
    IF ~IsSome(axis_addr) THEN None
    ELSE LET inside == {k \in 0..(count - 1) : Val(axis_addr) + k * size + size <= RomLen(data)}
             order == Ascending(inside)
         IN  Some([i \in 1..Len(order) |->
                     FracMul(FracOfInt(unpack_unsigned(data, Val(axis_addr) + order[i] * size,
                                                       size)),
                             multiplier)])

\* ME7RomTool.extract_map_data: [ok |-> FALSE] stands for the {} it returns on an error
ME7RomTool_extract_map_data(data, map_def) ==
    LET size == DATA_TYPES_size(map_def.data_type)
        total_size == map_def.width * map_def.height * size
        pos(y, x) == map_def.address + (y * map_def.width + x) * size
        raw_data == [y \in 1..map_def.height |-> [x \in 1..map_def.width |->
                        unpack_unsigned(data, pos(y - 1, x - 1), size)]]
    IN  IF RomLen(data) = 0 THEN [ok |-> FALSE]
        ELSE IF size = 0 THEN [ok |-> FALSE]
        ELSE IF map_def.address + total_size > RomLen(data) THEN [ok |-> FALSE]
        ELSE [ok |-> TRUE,
              address |-> map_def.address,
              width |-> map_def.width,
              height |-> map_def.height,
              raw_data |-> raw_data,
              scaled_data |-> [y \in 1..map_def.height |-> [x \in 1..map_def.width |->
                                  FracMul(FracOfInt(raw_data[y][x]),
                                          map_def.value_multiplier)]],
              x_axis |-> tool_axis(data, map_def.x_axis_addr, map_def.width, size,
                                   map_def.x_multiplier),
              y_axis |-> tool_axis(data, map_def.y_axis_addr, map_def.height, size,
                                   map_def.y_multiplier)]

-----------------------------------------------------------------------------
(* me7_ferrari_scanner.py: floats.  A float is the fraction <<n, d>> with    *)
(* d > 0; d = 0 stands for the values that are no numbers: <<0, 0>> is NaN,  *)
(* <<1, 0>> is +inf and <<-1, 0>> is -inf.                                   *)

NaN == <<0, 0>>
PosInf == <<1, 0>>
NegInf == <<-1, 0>>

IsNaN(v) == v[2] = 0 /\ v[1] = 0
IsInf(v) == v[2] = 0 /\ v[1] # 0

\* Python's a == b on floats: NaN equals nothing
FloatEq(a, b) == ~IsNaN(a) /\ ~IsNaN(b) /\ a = b

\* Python's a < b on floats: a comparison with NaN is False
FloatLt(a, b) ==
    /\ ~IsNaN(a) /\ ~IsNaN(b)
    /\ IF IsInf(a) /\ IsInf(b) THEN a[1] < b[1]
       ELSE a[1] * b[2] < b[1] * a[2]

\* Python's abs(v)
FloatAbs(v) == <<Abs(v[1]), v[2]>>

\* Python's a * b on floats
FloatMul(a, b) ==
    IF IsNaN(a) \/ IsNaN(b) THEN NaN
    ELSE IF IsInf(a) \/ IsInf(b)
         THEN IF a[1] = 0 \/ b[1] = 0 THEN NaN
              ELSE IF (a[1] < 0) = (b[1] < 0) THEN PosInf ELSE NegInf
    ELSE FracMul(a, b)

RECURSIVE Pow2(_)
Pow2(k) == IF k = 0 THEN 1 ELSE 2 * Pow2(k - 1)

\* struct.unpack("<f", ...): sign, 8 bits of exponent, 23 bits of mantissa.
\* Zero, the infinities, NaN and the normal numbers of exponent 2^-7 .. 2^7
\* are decoded; the images of the model hold no other float.
unpack_float32(data, pos) ==
    LET b2 == ByteAt(data, pos + 2)
        b3 == ByteAt(data, pos + 3)
        sign == IF b3 >= 128 THEN -1 ELSE 1
        e == (b3 % 128) * 2 + (b2 \div 128)
        m == (b2 % 128) * 65536 + ByteAt(data, pos + 1) * 256 + ByteAt(data, pos)
    IN  IF e = 255 THEN (IF m = 0 THEN <<sign, 0>> ELSE NaN)
        ELSE IF e = 0 /\ m = 0 THEN <<0, 1>>
        ELSE IF e >= 127 THEN Frac(sign * (8388608 + m) * Pow2(e - 127), 8388608)
        ELSE Frac(sign * (8388608 + m), 8388608 * Pow2(127 - e))

-----------------------------------------------------------------------------
(* me7_ferrari_scanner.py: ME7RomAdvancedScanner.extract_map_table *)

\* DATA_TYPES[value_type]["size"]
value_type_size(value_type) ==
    IF value_type \in {"uint8", "int8"} THEN 1 ELSE IF value_type = "float32" THEN 4 ELSE 2

\* struct.unpack("<" + fmt, ...) for B, b, H, h and f, as a float
unpack_value(data, pos, value_type) ==
    LET u == IF value_type_size(value_type) = 1 THEN ByteAt(data, pos) ELSE Word(data, pos)
        top == IF value_type_size(value_type) = 1 THEN 256 ELSE 65536
    IN  IF value_type = "float32" THEN unpack_float32(data, pos)
        ELSE IF value_type \in {"int8", "int16"} /\ 2 * u >= top THEN FracOfInt(u - top)
        ELSE FracOfInt(u)

\* ME7RomAdvancedScanner.extract_data
extract_data(data, address, value_type, count) ==
    LET size == value_type_size(value_type)
        n == Cardinality({i \in 0..(count - 1) :
                            \A k \in 0..i : address + k * size + size <= RomLen(data)})
    IN  IF RomLen(data) = 0 THEN <<>>
        ELSE [i \in 1..n |-> unpack_value(data, address + (i - 1) * size, value_type)]

\* ME7RomAdvancedScanner.extract_map_table, for a "3D" map of two dimensions
\* or a "2D" table of one: None, or the result's "data"
extract_map_table(data, map_def) ==
    LET addr == map_def.address
        type_size == value_type_size(map_def.valueType)
        x_size == map_def.dimensions[1]
        y_size == map_def.dimensions[Len(map_def.dimensions)]
        scale(v) == FloatMul(v, map_def.factor)
    IN  IF map_def.type = "3D" /\ Len(map_def.dimensions) = 2
        THEN IF addr + (x_size * y_size) * type_size > RomLen(data) THEN None
             ELSE Some([y \in 1..y_size |-> [x \in 1..x_size |->
                          scale(extract_data(data,
                                             addr + ((y - 1) * x_size + (x - 1)) * type_size,
                                             map_def.valueType, 1)[1])]])
        ELSE IF addr + x_size * type_size > RomLen(data) THEN None
             ELSE LET raw_values == extract_data(data, addr, map_def.valueType, x_size)
                  IN  Some([i \in 1..Len(raw_values) |-> scale(raw_values[i])])

-----------------------------------------------------------------------------
(* me7_ferrari_scanner.py: the rejection rule *)

\* Python's max over values[lo..hi], entered with the running maximum best:
\* the running maximum is replaced by a greater item (the halves are taken in
\* order, which is the loop over the items; the left half is evaluated before
\* the right half is entered)
RECURSIVE py_max(_, _, _, _)
py_max(values, lo, hi, best) ==
    IF lo > hi THEN best
    ELSE IF lo = hi THEN (IF FloatLt(best, values[lo]) THEN values[lo] ELSE best)
    ELSE LET mid == (lo + hi) \div 2
             left == py_max(values, lo, mid, best)
         IN  IF left \in {left} THEN py_max(values, mid + 1, hi, left) ELSE left

\* Python's min over values[lo..hi], entered with the running minimum best
RECURSIVE py_min(_, _, _, _)
py_min(values, lo, hi, best) ==
    IF lo > hi THEN best
    ELSE IF lo = hi THEN (IF FloatLt(values[lo], best) THEN values[lo] ELSE best)
    ELSE LET mid == (lo + hi) \div 2
             left == py_min(values, lo, mid, best)
         IN  IF left \in {left} THEN py_min(values, mid + 1, hi, left) ELSE left

\* has_reasonable_values, line 476: float('nan') == v is False for every v, so
\* only the infinities are filtered out
filter_nan_inf(values) == SelectSeq(values, LAMBDA v : ~(FloatEq(PosInf, v) \/ FloatEq(NegInf, v)))

\* ME7RomAdvancedScanner.has_reasonable_values
has_reasonable_values(values) ==
    LET kept == filter_nan_inf(values)
    IN  IF values = <<>> THEN FALSE
        ELSE IF kept = <<>> THEN FALSE
        ELSE IF FloatEq(py_max(kept, 2, Len(kept), kept[1]),
                        py_min(kept, 2, Len(kept), kept[1])) THEN FALSE
        ELSE IF \A i \in 1..Len(kept) : FloatEq(kept[i], <<0, 1>>) THEN FALSE
        ELSE IF \A i \in 1..Len(kept) : FloatLt(<<10000, 1>>, FloatAbs(kept[i])) THEN FALSE
        ELSE TRUE

-----------------------------------------------------------------------------
(* me7_ferrari_scanner.py: the scan paths and identify_map.  A name is a     *)
(* tuple: <<"KFMIOP">> for a catalogue name, <<"MAP", i>> for f"MAP_{i:X}",  *)
(* <<"MAP3D", addr, x, y>> and <<"TABLE", addr, n>> for the generated ones.  *)

KnownMap(name, address, type, dimensions, valueType, factor) == [name |-> <<name>>, address |-> address, type |-> type, dimensions |-> dimensions, valueType |-> valueType, factor |-> factor]

KNOWN_MAPS_TABLES ==
    <<KnownMap("KFMIOP", 223744, "3D", <<16, 16>>, "uint16", <<1, 128>>),
      KnownMap("KFZWOP", 219136, "3D", <<16, 16>>, "int16", <<3, 4>>),
      KnownMap("KFMIRL", 222208, "3D", <<16, 12>>, "uint16", <<11719, 500000>>),
      KnownMap("KFLDRL", 272896, "2D", <<16>>, "uint16", <<1, 128>>),
      KnownMap("MLHFM", 229376, "2D", <<32>>, "float32", <<1, 1>>)>>

ADDRESS_RANGES == <<<<196608, 262144>>, <<262144, 327680>>, <<65536, 131072>>>>

MAP_SIGNATURES ==
    <<[pattern |-> <<16, 0, 16, 0>>, map_type |-> "3D", dimensions |-> <<16, 16>>],
      [pattern |-> <<16, 0, 12, 0>>, map_type |-> "3D", dimensions |-> <<16, 12>>],
      [pattern |-> <<8, 0, 8, 0>>, map_type |-> "3D", dimensions |-> <<8, 8>>],
      [pattern |-> <<16, 0, 0, 0>>, map_type |-> "2D", dimensions |-> <<16>>],
      [pattern |-> <<32, 0, 0, 0>>, map_type |-> "2D", dimensions |-> <<32>>]>>

\* the dict that extract_map_table returns for map_def, or None
extracted_map(data, map_def) ==
    LET cells == extract_map_table(data, map_def)
    IN  IF cells = None THEN None
        ELSE Some([name |-> map_def.name, address |-> map_def.address, type |-> map_def.type,
                   dimensions |-> map_def.dimensions, factor |-> map_def.factor,
                   data |-> Val(cells)])

\* [val for row in data for val in row]
flat_data(rows) ==
    IF rows = <<>> THEN <<>>
    ELSE [k \in 1..(Len(rows) * Len(rows[1])) |->
            rows[((k - 1) \div Len(rows[1])) + 1][((k - 1) % Len(rows[1])) + 1]]

\* ME7RomAdvancedScanner.is_valid_map
is_valid_map(map_data) ==
    IF map_data.data = <<>> THEN FALSE
    ELSE IF map_data.type = "3D"
         THEN IF Cardinality({Len(map_data.data[r]) : r \in 1..Len(map_data.data)}) # 1 THEN FALSE
              ELSE has_reasonable_values(flat_data(map_data.data))
    ELSE has_reasonable_values(map_data.data)

\* lo <= val <= hi on floats
FloatBetween(lo, val, hi) ==
    /\ FloatLt(lo, val) \/ FloatEq(lo, val)
    /\ FloatLt(val, hi) \/ FloatEq(val, hi)

\* the generated name with the prefix TABLE for every table
generated_name_table(map_data) ==
    IF map_data.name[1] = "MAP"
    THEN <<"TABLE", map_data.address>> \o map_data.dimensions
    ELSE map_data.name

\* identify_map, lines 554-560: the name when no fingerprint fits; the tuple
\* holds the fields that the format string prints
generated_name(map_data) ==
    IF map_data.name[1] = "MAP"
    THEN IF map_data.type = "3D"
         THEN <<"MAP3D", map_data.address, map_data.dimensions[1], map_data.dimensions[2]>>
         ELSE <<"TABLE", map_data.address, map_data.dimensions[1]>>
    ELSE map_data.name

\* identify_map with the ignition test ahead of the fuel test
identify_map_ignition_first(map_data) ==
    LET data == map_data.data
        dimensions == map_data.dimensions
        is3D == map_data.type = "3D"
        is2D == map_data.type = "2D"
        all3D(lo, hi) == \A r \in 1..Len(data) : \A c \in 1..Len(data[r]) :
                            FloatBetween(lo, data[r][c], hi)
        all2D(lo, hi) == \A k \in 1..Len(data) : FloatBetween(lo, data[k], hi)
        named(name, factor) == [map_data EXCEPT !.name = name, !.factor = factor]
    IN  IF is3D /\ dimensions = <<16, 16>> /\ all3D(<<-20, 1>>, <<60, 1>>)
        THEN named(<<"KFZWOP">>, <<3, 4>>)
        ELSE IF is3D /\ dimensions = <<16, 16>> /\ all3D(<<0, 1>>, <<10, 1>>)
        THEN named(<<"KFMIOP">>, <<1, 128>>)
        ELSE IF is3D /\ dimensions # <<16, 16>> /\ dimensions = <<16, 12>>
                /\ all3D(<<0, 1>>, <<600, 1>>)
        THEN named(<<"KFMIRL">>, <<11719, 500000>>)
        ELSE IF ~is3D /\ is2D /\ dimensions = <<16>> /\ all2D(<<7, 10>>, <<13, 10>>)
        THEN named(<<"KFLDRL">>, <<1, 128>>)
        ELSE IF ~is3D /\ is2D /\ dimensions # <<16>> /\ dimensions = <<32>>
        THEN named(<<"MLHFM">>, <<1, 1>>)
        ELSE [map_data EXCEPT !.name = generated_name(map_data)]

\* ME7RomAdvancedScanner.identify_map: the name and the factor it writes into
\* the copy of map_data
identify_map(map_data) ==
    LET data == map_data.data
        dimensions == map_data.dimensions
        is3D == map_data.type = "3D"
        is2D == map_data.type = "2D"
        all3D(lo, hi) == \A r \in 1..Len(data) : \A c \in 1..Len(data[r]) :
                            FloatBetween(lo, data[r][c], hi)
        all2D(lo, hi) == \A k \in 1..Len(data) : FloatBetween(lo, data[k], hi)
        named(name, factor) == [map_data EXCEPT !.name = name, !.factor = factor]
    IN  IF is3D /\ dimensions = <<16, 16>> /\ all3D(<<0, 1>>, <<10, 1>>)
        THEN named(<<"KFMIOP">>, <<1, 128>>)
        ELSE IF is3D /\ dimensions = <<16, 16>> /\ all3D(<<-20, 1>>, <<60, 1>>)
        THEN named(<<"KFZWOP">>, <<3, 4>>)
        ELSE IF is3D /\ dimensions # <<16, 16>> /\ dimensions = <<16, 12>>
                /\ all3D(<<0, 1>>, <<600, 1>>)
        THEN named(<<"KFMIRL">>, <<11719, 500000>>)
        ELSE IF ~is3D /\ is2D /\ dimensions = <<16>> /\ all2D(<<7, 10>>, <<13, 10>>)
        THEN named(<<"KFLDRL">>, <<1, 128>>)
        ELSE IF ~is3D /\ is2D /\ dimensions # <<16>> /\ dimensions = <<32>>
        THEN named(<<"MLHFM">>, <<1, 1>>)
        ELSE [map_data EXCEPT !.name = generated_name(map_data)]

\* find_maps_by_signature: the signature whose pattern is at offset i, if any
signature_at(data, i) ==
    {s \in 1..Len(MAP_SIGNATURES) :
        /\ ~(i + Len(MAP_SIGNATURES[s].pattern) > RomLen(data))
        /\ \A k \in 1..Len(MAP_SIGNATURES[s].pattern) :
              ByteAt(data, i + k - 1) = MAP_SIGNATURES[s].pattern[k]}

\* find_maps_by_signature, lines 296-318: the entry built at offset i for signature s
signature_entry(data, i, s) ==
    LET data_start == i + Len(MAP_SIGNATURES[s].pattern)
        sample_data == {ByteAt(data, k) : k \in data_start..(Min({data_start + 16, RomLen(data)}) - 1)}
    IN  [name |-> <<"MAP", i>>, address |-> i, type |-> MAP_SIGNATURES[s].map_type,
         dimensions |-> MAP_SIGNATURES[s].dimensions,
         valueType |-> IF \E b \in sample_data : b > 128 THEN "int16" ELSE "uint16",
         factor |-> <<1, 1>>]

\* the only element of a set of one element; {e : v \in {d}} evaluates d once
Only(S) == CHOOSE x \in S : TRUE

\* the sequences of seqs one after the other
RECURSIVE Flatten(_)
Flatten(seqs) == IF seqs = <<>> THEN <<>> ELSE Head(seqs) \o Flatten(Tail(seqs))

\* ME7RomAdvancedScanner.find_maps_by_signature: the patterns of MAP_SIGNATURES
\* differ, so an offset holds at most one of them
find_maps_by_signature(data) ==
    LET cand(i) == Only({IF sigs = {} THEN None
                         ELSE extracted_map(data,
                                            signature_entry(data, i, CHOOSE s \in sigs : TRUE)) :
                         sigs \in {signature_at(data, i)}})
        found(r) == {i \in ADDRESS_RANGES[r][1]..(Min({ADDRESS_RANGES[r][2], RomLen(data) - 8}) - 1) :
                        cand(i) # None}
        of_range(r) == Only({[k \in 1..Len(order) |-> identify_map(Val(cand(order[k])))] :
                             order \in {Ascending(found(r))}})
    IN  Flatten([r \in 1..Len(ADDRESS_RANGES) |-> of_range(r)])

\* ME7RomAdvancedScanner.scan_known_addresses
scan_known_addresses(data) ==
    LET at(m, k) == [KNOWN_MAPS_TABLES[m] EXCEPT !.address = @ + 16 * k]
        good(m) == {k \in -32..32 :
                      \E d \in {at(m, k)} :
                          /\ ~(d.address < 0 \/ d.address >= RomLen(data) - 8)
                          /\ \E e \in {extracted_map(data, d)} :
                                 e # None /\ is_valid_map(Val(e))}
        of_map(m) == Only({IF g = {} THEN <<>>
                           ELSE <<Val(extracted_map(data, at(m, Min(g))))>> :
                           g \in {good(m)}})
    IN  Flatten([m \in 1..Len(KNOWN_MAPS_TABLES) |-> of_map(m)])

\* ME7RomAdvancedScanner.find_all_potential_maps: maps_by_addr in insertion order
find_all_potential_maps(data) ==
    Only({known \o SelectSeq(find_maps_by_signature(data),
                             LAMBDA m : \A k \in 1..Len(known) : known[k].address # m.address) :
          known \in {scan_known_addresses(data)}})

-----------------------------------------------------------------------------
(* romscanner.py: ME7Scanner.find_epk_info *)

\* needle and mask of NEEDLE_PATTERNS['epk_info']
epk_needle == <<243, 248, 0, 0,  13, 13,  243, 248, 0, 0,  13, 8,
                243, 248, 0, 0,  13, 3,  240, 68>>
epk_mask == <<MASK, MASK, 0, 0,  MASK, MASK,  MASK, MASK, 0, 0,  MASK, MASK,
              MASK, MASK, 0, 0,  MASK, MASK,  MASK, MASK>>

\* needle and mask of NEEDLE_PATTERNS['kwp2000_ecu']
kwp_needle == <<194, 244, 0, 0,  194, 245, 0, 0,  0, 69,  70, 244, 0, 0,  221, 12,
                194, 244, 0, 0,  194, 245, 0, 0,  0, 69,  244, 164, 0, 0>>
kwp_mask == <<MASK, MASK, 0, 0,  MASK, MASK, 0, 0,  MASK, MASK,  MASK, MASK, 0, 0,
              MASK, MASK,  MASK, MASK, 0, 0,  MASK, MASK, 0, 0,  MASK, MASK,
              MASK, MASK, 0, 0>>

\* "max_len = 64  # Safety limit"
epk_max_len == 64

\* Python's data[k]: a negative k counts from the end; outside -len..len-1 it
\* raises IndexError, kept as None
PyIndex(data, k) ==
    IF 0 <= k /\ k < RomLen(data) THEN Some(ByteAt(data, k))
    ELSE IF k < 0 /\ RomLen(data) + k >= 0 THEN Some(ByteAt(data, RomLen(data) + k))
    ELSE None

\* the while loop of lines 340-348 from position i on: <<raised, epk_data>>
RECURSIVE epk_loop(_, _, _, _)
epk_loop(data, addr, i, epk_data) ==
    IF ~(i < epk_max_len /\ addr + i < RomLen(data)) THEN <<FALSE, epk_data>>
    ELSE LET ch == PyIndex(data, addr + i)
         IN  IF ~IsSome(ch) THEN <<TRUE, epk_data>>
             ELSE IF Val(ch) = 0 THEN <<FALSE, epk_data>>
             ELSE IF 32 <= Val(ch) /\ Val(ch) <= 126
             THEN epk_loop(data, addr, i + 1, Append(epk_data, Val(ch)))
             ELSE <<FALSE, epk_data>>

\* ME7Scanner.find_epk_info once the KWP2000 needle is found at kwp_offset, with
\* the DPP values dpp it then has.  indexed is the first subscript of the data.
find_epk_info_at(data, kwp_offset, dpp) ==
    LET val == Word(data, kwp_offset + 28)
        seg == IF IsSome(dpp[2]) THEN Val(dpp[2]) - 1 ELSE 0
        addr == romscanner_file_offset(seg, val)[2]
        loop == epk_loop(data, addr, 2, <<>>)
        entered == 2 < epk_max_len /\ addr + 2 < RomLen(data)
    IN  IF addr < RomLen(data)
        THEN [file_offset |-> Some(addr),
              indexed |-> IF entered THEN Some(addr + 2) ELSE None,
              status |-> IF loop[1] THEN "Error extracting EPK data" ELSE "EPK",
              epk |-> IF loop[1] THEN None ELSE Some(loop[2])]
        ELSE [file_offset |-> Some(addr), indexed |-> None,
              status |-> "EPK address out of range", epk |-> None]

-----------------------------------------------------------------------------
(* The scans: me7_map_scanner.find_1d_maps and find_multi_map_type1,         *)
(* romscanner.py ME7Scanner.find_maps                                        *)

\* "mov r12, #val / mov r13, #seg / movbz r14, .. / calls .." with its operands
Mapfinder(val, seg) ==
    <<230, 252, Lo(val), Hi(val),  230, 253, Lo(seg), Hi(seg),  194, 254, 0, 0,  218, 0, 0, 0>>

mapfinder_needle == Mapfinder(0, 0)
mapfinder_mask == [k \in 1..16 |-> IF k \in {1, 2, 5, 6, 9, 10, 13} THEN MASK ELSE 0]

\* the Type 1 call sequence of 52 bytes with the operands of its first two instructions
MapfinderXy2(val, seg) ==
    <<230, 244, Lo(val), Hi(val),  230, 245, Lo(seg), Hi(seg),  136, 80,  136, 64,
      230, 244, 0, 0,  230, 245, 0, 0,  136, 80,  136, 64,  215, 64, 0, 0,
      194, 252, 0, 0,  230, 253, 0, 0,  230, 254, 0, 0,  215, 64, 0, 0,
      194, 255, 0, 0,  218, 0, 0, 0>>

mapfinder_xy2_needle == MapfinderXy2(0, 0)
mapfinder_xy2_mask == [k \in 1..52 |-> IF mapfinder_xy2_needle[k] # 0 THEN MASK ELSE 0]

\* NEEDLE_PATTERNS['map_table'] of romscanner.py with its operands
MapTable(val, seg) ==
    <<230, 252, Lo(val), Hi(val),  230, 253, Lo(seg), Hi(seg),  194, 254, 0, 0,
      194, 255, 0, 0,  218, 0, 0, 0>>

map_table_needle == MapTable(0, 0)
map_table_mask == [k \in 1..20 |-> IF map_table_needle[k] # 0 THEN MASK ELSE 0]

MAX_TABLE_SEARCHES == 4000

\* find_1d_maps, lines 680-722: what is printed for the match at addr
find_1d_maps_entry(rom_data, addr) ==
    LET size == RomLen(rom_data)
        val == get16(rom_data, addr + 2)
        seg == get16(rom_data, addr + 6)
        map_adr == calc_physical_address(seg, val)[2]
        x_axis == ByteAt(rom_data, map_adr)
        table_start == map_adr + 1
        line(status, table) == [addr |-> addr, status |-> status, table |-> table]
    IN  IF addr + 10 >= size THEN line("", <<>>)
        ELSE IF ~is_valid_table_address(map_adr, size)
                \/ ~is_valid_table_address(map_adr + 1, size)
        THEN line("Invalid map address", <<>>)
        ELSE IF x_axis > 50 \/ x_axis = 0 THEN line("Invalid count", <<>>)
        ELSE IF ~is_valid_table_address(table_start + x_axis - 1, size)
        THEN line("Table extends beyond file boundary", <<>>)
        ELSE line("x-axis", [x \in 1..x_axis |-> ByteAt(rom_data, table_start + x - 1)])

\* find_1d_maps resuming one byte after the match
RECURSIVE find_1d_maps_next_byte(_, _, _)
find_1d_maps_next_byte(rom_data, current_offset, map_count) ==
    LET found == search(rom_data, mapfinder_needle, mapfinder_mask, current_offset)
    IN  IF ~(map_count < MAX_TABLE_SEARCHES) \/ found = None THEN <<>>
        ELSE <<find_1d_maps_entry(rom_data, Val(found))>>
             \o find_1d_maps_next_byte(rom_data, Val(found) + 1, map_count + 1)

\* find_1d_maps leaving its loop at the first candidate it rejects
RECURSIVE find_1d_maps_stop_on_error(_, _, _)
find_1d_maps_stop_on_error(rom_data, current_offset, map_count) ==
    LET found == search(rom_data, mapfinder_needle, mapfinder_mask, current_offset)
        entry == find_1d_maps_entry(rom_data, Val(found))
    IN  IF ~(map_count < MAX_TABLE_SEARCHES) \/ found = None THEN <<>>
        ELSE IF entry.status # "x-axis" THEN <<entry>>
        ELSE <<entry>>
             \o find_1d_maps_stop_on_error(rom_data, Val(found) + Len(mapfinder_needle),
                                           map_count + 1)

\* me7_map_scanner.find_1d_maps: the loop entered with current_offset and map_count
RECURSIVE find_1d_maps(_, _, _)
find_1d_maps(rom_data, current_offset, map_count) ==
    LET found == search(rom_data, mapfinder_needle, mapfinder_mask, current_offset)
    IN  IF ~(map_count < MAX_TABLE_SEARCHES) \/ found = None THEN <<>>
        ELSE <<find_1d_maps_entry(rom_data, Val(found))>>
             \o find_1d_maps(rom_data, Val(found) + Len(mapfinder_needle), map_count + 1)

\* me7_map_scanner.find_multi_map_type1: the loop entered with current_offset
RECURSIVE find_multi_map_type1(_, _, _)
find_multi_map_type1(rom_data, current_offset, show) ==
    LET found == search(rom_data, mapfinder_xy2_needle, mapfinder_xy2_mask, current_offset)
        addr == Val(found)
        dumped == dump_table(rom_data, get16(rom_data, addr + 2), get16(rom_data, addr + 6),
                             XXXX_table, 0, show)
    IN  IF found = None THEN <<>>
        ELSE <<[addr |-> addr,
                status |-> IF addr + 34 < RomLen(rom_data) THEN dumped.status ELSE ""]>>
             \o find_multi_map_type1(rom_data, addr + Len(mapfinder_xy2_needle), show)

\* the Type 2 call sequence of 24 bytes with the operands of its mov instructions
MapfinderXy3(r12, r13, r14, r15) ==
    <<136, 80,  230, 252, Lo(r12), Hi(r12),  230, 253, Lo(r13), Hi(r13),
      230, 254, Lo(r14), Hi(r14),  230, 255, Lo(r15), Hi(r15),  218, 0, 0, 0,  8, 4>>

mapfinder_xy3_needle == MapfinderXy3(0, 0, 0, 0)
mapfinder_xy3_mask == [k \in 1..24 |-> IF mapfinder_xy3_needle[k] # 0 THEN MASK ELSE 0]

MAX_SEARCH_BACK_BYTES == 3500

\* find_multi_map_type2, lines 613-624: the backtrack_count printed, from the
\* loop entered with backtrack_pos and backtrack_count
RECURSIVE backtrack(_, _, _)
backtrack(rom_data, backtrack_pos, backtrack_count) ==
    IF ~(backtrack_count < MAX_SEARCH_BACK_BYTES) THEN backtrack_count
    ELSE IF backtrack_pos <= 0 THEN backtrack_count + 1
    ELSE IF backtrack_pos + 1 < RomLen(rom_data)
            /\ ByteAt(rom_data, backtrack_pos) = 219
            /\ ByteAt(rom_data, backtrack_pos + 1) = 0
    THEN backtrack_count + 2
    ELSE backtrack(rom_data, backtrack_pos - 1, backtrack_count + 1)

\* find_multi_map_type2, lines 606-653: what is printed for the match at addr
\* when dpp1_value is dpp1
find_multi_map_type2_entry(rom_data, addr, dpp1, show) ==
    LET x_num_start_addr == get16(rom_data, addr + 4)
        y_axis_addr == get16(rom_data, addr + 14)
        cell_table_addr == get16(rom_data, addr + 22)
    IN  IF addr + 26 < RomLen(rom_data)
        THEN [addr |-> addr, backtrack_count |-> backtrack(rom_data, addr, 0),
              segment |-> Some(dpp1),
              rom_x_addr |-> Some(calc_physical_address(dpp1, x_num_start_addr)[2]),
              rom_y_addr |-> Some(calc_physical_address(dpp1, y_axis_addr)[2]),
              table |-> Some(dump_table(rom_data, x_num_start_addr, dpp1, XXXXB_table,
                                        cell_table_addr, show))]
        ELSE [addr |-> addr, backtrack_count |-> backtrack(rom_data, addr, 0),
              segment |-> None, rom_x_addr |-> None, rom_y_addr |-> None, table |-> None]

\* me7_map_scanner.find_multi_map_type2 reading the global dpp1_value = dpp1:
\* the loop entered with new_offset and map_count (current_offset stays 0)
RECURSIVE find_multi_map_type2(_, _, _, _, _)
find_multi_map_type2(rom_data, new_offset, map_count, dpp1, show) ==
    LET found == search(rom_data, mapfinder_xy3_needle, mapfinder_xy3_mask, new_offset)
    IN  IF ~(map_count < MAX_TABLE_SEARCHES) \/ found = None THEN <<>>
        ELSE <<find_multi_map_type2_entry(rom_data, Val(found), dpp1, show)>>
             \o find_multi_map_type2(rom_data,
                                     new_offset + Val(found) + Len(mapfinder_xy3_needle),
                                     map_count + 1, dpp1, show)

\* ME7Scanner.find_maps: the loop entered with offset
RECURSIVE find_maps(_, _)
find_maps(data, offset) ==
    LET found == search_pattern(data, map_table_needle, map_table_mask, offset)
        at == Val(found)
        map_offset == Word(data, at + 2)
        seg_value == Word(data, at + 6)
        file_offset == romscanner_file_offset(seg_value, map_offset)[2]
    IN  IF found = None THEN <<>>
        ELSE IF at >= RomLen(data) - 20 THEN <<>>
        ELSE <<[needle_offset |-> at, map_offset |-> map_offset, segment |-> seg_value,
                physical_address |-> romscanner_file_offset(seg_value, map_offset)[1],
                file_offset |-> file_offset,
                map_data |-> ME7Scanner_extract_map_data(data, file_offset)]>>
             \o find_maps(data, at + Len(map_table_needle))

\* one pass through a scan loop: where the loop stands after it ("search"
\* for the next pass, "done" after a break), the next search start offset,
\* the number of matches counted and the match of this pass
LoopState(pc, offset, map_count, match) ==
    [pc |-> pc, offset |-> offset, map_count |-> map_count, match |-> match]

\* ME7Scanner.find_maps, lines 453-491: one pass of "while True"
find_maps_step(data, offset, map_count) ==
    LET found == search_pattern(data, map_table_needle, map_table_mask, offset)
    IN  IF found = None \/ Val(found) >= RomLen(data) - 20
        THEN LoopState("done", offset, map_count, None)
        ELSE LoopState("search", Val(found) + Len(map_table_needle), map_count + 1, found)

\* find_1d_maps with a continue branch that leaves current_offset at the match
find_1d_maps_step_continue_in_place(rom_data, current_offset, map_count) ==
    LET found == search(rom_data, mapfinder_needle, mapfinder_mask, current_offset)
    IN  IF ~(map_count < MAX_TABLE_SEARCHES) \/ found = None
        THEN LoopState("done", current_offset, map_count, None)
        ELSE IF find_1d_maps_entry(rom_data, Val(found)).status # "x-axis"
        THEN LoopState("search", Val(found), map_count + 1, found)
        ELSE LoopState("search", Val(found) + Len(mapfinder_needle), map_count + 1, found)

\* find_1d_maps, lines 671-726: one pass of "while map_count <
\* MAX_TABLE_SEARCHES".  Each continue branch (lines 680-682, 693-696,
\* 702-705, 708-711), the except branch and the normal end of the body add
\* len(mapfinder_needle) to the offset of the match.
find_1d_maps_step(rom_data, current_offset, map_count) ==
    LET found == search(rom_data, mapfinder_needle, mapfinder_mask, current_offset)
    IN  IF ~(map_count < MAX_TABLE_SEARCHES) \/ found = None
        THEN LoopState("done", current_offset, map_count, None)
        ELSE LoopState("search", Val(found) + Len(mapfinder_needle), map_count + 1, found)

\* find_multi_map_type1, lines 565-585: one pass of "while True"
find_multi_map_type1_step(rom_data, current_offset, map_count) ==
    LET found == search(rom_data, mapfinder_xy2_needle, mapfinder_xy2_mask, current_offset)
    IN  IF found = None THEN LoopState("done", current_offset, map_count, None)
        ELSE LoopState("search", Val(found) + Len(mapfinder_xy2_needle), map_count + 1, found)

\* find_multi_map_type2, lines 598-658: one pass of the loop; the search
\* starts at current_offset + new_offset with current_offset = 0
find_multi_map_type2_step(rom_data, new_offset, map_count) ==
    LET found == search(rom_data, mapfinder_xy3_needle, mapfinder_xy3_mask, new_offset)
    IN  IF ~(map_count < MAX_TABLE_SEARCHES) \/ found = None
        THEN LoopState("done", new_offset, map_count, None)
        ELSE LoopState("search", new_offset + Val(found) + Len(mapfinder_xy3_needle),
                       map_count + 1, found)

-----------------------------------------------------------------------------
(* The ROM images explored *)

Alphabet == {0, 1, 51}
NeedleBytes == {0, 1}

\* every ROM of at most MaxRomLen bytes over Alphabet
SmallRoms == {Explicit(h) : h \in SeqsUpTo(Alphabet, MaxRomLen)}

\* the four "mov DPPx, #imm" instructions with the immediates d[1..4]
DppSetup(d) ==
    <<230, 0, Lo(d[1]), Hi(d[1]),  230, 1, Lo(d[2]), Hi(d[2]),
      230, 2, Lo(d[3]), Hi(d[3]),  230, 3, Lo(d[4]), Hi(d[4])>>

DppChoices == {<<517, 517, 224, 3>>, <<0, 0, 224, 3>>, <<1, 2, 3, 4>>}

\* a DPP setup after 0 or 16 zero bytes, followed by at most MaxTail bytes
DppRoms ==
    {Explicit(Zeros(k) \o DppSetup(d) \o Zeros(t)) :
        k \in {0, 16}, d \in DppChoices, t \in 0..MaxTail}

\* two DPP setups one after the other
TwoDppRoms ==
    {Explicit(DppSetup(<<1, 2, 3, 4>>) \o DppSetup(<<517, 517, 224, 3>>) \o Zeros(t)) :
        t \in 0..MaxTail}

\* the KWP2000 needle with the pointer val in its last instruction
KwpCode(val) ==
    <<194, 244, 0, 0,  194, 245, 0, 0,  0, 69,  70, 244, 50, 0,  221, 12,
      194, 244, 0, 0,  194, 245, 0, 0,  0, 69,  244, 164, Lo(val), Hi(val)>>

\* a length word and the string "/1"
EpkString == <<0, 0, 47, 49, 0>>

\* DPP setup, KWP2000 code pointing at the EPK string, the EPK string
EpkRoms ==
    {Explicit(DppSetup(<<0, dpp1, 224, 3>>) \o KwpCode(46) \o EpkString) :
        dpp1 \in {0, 1, 517}}
    \cup {Explicit(KwpCode(30) \o EpkString)}

\* images holding the byte sequences ME7RomTool.analyze_dppx_setup looks for
AnalyzeRoms ==
    {Explicit(DppSetup(<<1, 2, 3, 4>>) \o dpp_direct),
     Explicit(analyze_patterns[3]),
     Explicit(DppSetup(<<1, 2, 3, 4>>))}

\* images holding tables: count bytes, axes, cells; the last one is a table
\* of two rows and two columns in the layout of XXXX_table
TableRoms ==
    {Explicit(<<3, 10, 20, 30>>),
     Explicit(<<1, 0, 1, 0, 75, 70, 90, 87, 75, 70, 80, 69, 68>>),
     Explicit(<<2, 0, 5, 6, 7, 8>>),
     Explicit(<<9, 2, 0, 5, 6, 7>>),
     Explicit(<<2, 2, 11, 12, 21, 22, 1, 2, 3, 4>>),
     Explicit(<<2, 2, 11, 12, 21, 22, 1, 2, 3>>),
     Explicit(<<1, 1, 11, 21, 0, 7, 0>>),
     Explicit(<<75, 70, 80, 69, 68,  1, 0,  1, 0,  7, 0,  8, 0,  9, 1>>),
     Explicit(<<75, 70, 80, 69, 68,  1, 0,  1, 0,  7, 0,  8, 0,  9>>),
     Explicit(<<51>> \o Zeros(20)),
     Explicit(<<2, 2,  11, 12,  21, 0, 22, 0,  1, 0, 2, 0,  3, 0, 4, 0>>)}

\* images of the two nominal sizes, zero after the head
BigRoms ==
    {[size |-> n, head |-> h, at |-> 0, chunk |-> <<>>] :
        n \in {524288, 1048576},
        h \in {<<3, 10, 20, 30>>, Zeros(16) \o DppSetup(<<517, 517, 224, 3>>)}}

\* n copies of the 16 bit word w, low byte first
Words(w, n) == [k \in 1..(2 * n) |-> IF k % 2 = 1 THEN Lo(w) ELSE Hi(w)]

\* images with a table in the address ranges of me7_ferrari_scanner.py:
\* 8x8 and 16x16 cells that all hold the signature word, a 16x16 map of
\* varying cells, tables of 16 and of 32 words, and an ignition map at the
\* first address tried for KFZWOP
FerrariRoms ==
    {Placed(65536 + 129, 65536, Words(8, 64)),
     Placed(65536 + 513, 65536, Words(16, 256)),
     Placed(65536 + 513, 65536, Words(16, 2) \o Words(5, 254)),
     Placed(65536 + 513, 65536, Words(16, 2) \o Words(500, 254)),
     Placed(65536 + 33, 65536, <<16, 0, 0, 0>> \o Words(1, 14)),
     Placed(65536 + 65, 65536, <<32, 0, 0, 0>> \o Words(20000, 30)),
     Placed(218624 + 513, 218624, <<3, 0>> \o Words(7, 255))}

\* images with call sequences that the scans look for: two that overlap by
\* all but two bytes, two in a row of which the first names a table outside
\* the image and the second a table inside it, and one Type 1 sequence
ScanRoms ==
    {Explicit(<<230, 252, 230, 252,  230, 253, 230, 253,  194, 254, 194, 254,
                218, 0, 218, 0,  0, 0, 0>>),
     Explicit(Mapfinder(65535, 0) \o Mapfinder(33, 0) \o <<0, 2, 7, 9>>),
     Explicit(<<230, 252, 230, 252,  230, 253, 230, 253,  194, 254, 194, 254,
                194, 255, 194, 255,  218, 0, 218, 0,  0, 0, 0>>),
     Explicit(MapTable(65535, 0) \o MapTable(40, 0) \o <<1, 1, 5, 6, 7>>),
     Explicit(MapfinderXy2(52, 0) \o <<1, 1, 5, 6, 0, 7, 0>>),
     Explicit(MapfinderXy2(65535, 0) \o MapfinderXy2(104, 0) \o <<1, 1, 5, 6, 0, 7, 0>>)}

\* images with the Type 2 call sequence and its table: alone, after a DPP
\* setup, after the call sequence of a one-dimensional map, and three times
\* in a row
Type2Roms ==
    {Explicit(MapfinderXy3(24, 0, 0, 0) \o <<2, 5, 6, 7, 8>>),
     Explicit(DppSetup(<<0, 0, 224, 3>>) \o MapfinderXy3(40, 0, 0, 0) \o <<2, 5, 6, 7, 8>>),
     Explicit(Mapfinder(40, 0) \o MapfinderXy3(40, 0, 0, 0) \o <<2, 5, 6, 7, 8>>),
     Explicit(MapfinderXy3(72, 0, 0, 0) \o MapfinderXy3(72, 0, 0, 0)
              \o MapfinderXy3(72, 0, 0, 0) \o <<2, 5, 6, 7, 8>>)}

\* images of unusual sizes, zero throughout: one byte more than 512 KiB, one
\* byte more than the middle between 512 KiB and 1 MiB, and 2 MiB
OddSizeRoms == {Placed(n, 0, <<>>) : n \in {524289, 786433, 2097152}}

Roms == SmallRoms \cup DppRoms \cup TwoDppRoms \cup EpkRoms \cup AnalyzeRoms
        \cup TableRoms \cup BigRoms \cup FerrariRoms \cup ScanRoms \cup Type2Roms
        \cup OddSizeRoms

\* the ROM files given to main one after the other: a DPP setup and one
\* byte, and the images with the Type 2 call sequence
RomFiles == {Explicit(DppSetup(d) \o Zeros(1)) : d \in DppChoices} \cup Type2Roms

\* linear scans are explored on images of at most this many bytes
MaxScanLen == 128

Scannable(data) == RomLen(data) <= MaxScanLen

\* the scan of the address ranges is explored on images of at most this many bytes
MaxMapScanLen == 220000

MapScannable(data) == RomLen(data) <= MaxMapScanLen

-----------------------------------------------------------------------------
(* Inputs of the operations *)

\* needle and mask pairs of equal, non-zero length
Patterns ==
    {p \in SeqsUpTo(NeedleBytes, MaxNeedleLen) \X SeqsUpTo({0, MASK}, MaxNeedleLen) :
        Len(p[1]) > 0 /\ Len(p[1]) = Len(p[2])}
Starts == 0..MaxStart

\* needle and mask pairs of different lengths
MismatchedPatterns ==
    {p \in SeqsUpTo(NeedleBytes, MaxNeedleLen) \X SeqsUpTo({0, MASK}, MaxNeedleLen) :
        Len(p[1]) > 0 /\ Len(p[1]) # Len(p[2])}

\* mapfinder_needle with mapfinder_mask as the module has them, and with a
\* mask that lost its last byte
MapfinderConfigs ==
    {<<mapfinder_needle, mapfinder_mask>>,
     <<mapfinder_needle, SubSeq(mapfinder_mask, 1, Len(mapfinder_mask) - 1)>>}

\* segments handed to the address translation: 0, 1 and the default DPP1 0x0205
Segments == {0, 1, 517}
Offsets16 == {0, 1, 65535}

WithCell(table_def, entry) == [table_def EXCEPT !.cell = entry]

\* the two table definitions of me7_map_scanner.py and definitions of the same
\* class for a count byte followed by cells scaled by a divisor of 10
TableDefs ==
    {XXXX_table, XXXXB_table}
    \cup {WithCell(TableDef(1, 0, 0, 0, cw), [conv |-> <<10, 1>>, otype |-> "/", conv2 |-> None]) :
            cw \in {1, 2}}

Shows == {[phy |-> TRUE, hex |-> TRUE, adr |-> TRUE],
          [phy |-> TRUE, hex |-> FALSE, adr |-> FALSE],
          [phy |-> FALSE, hex |-> TRUE, adr |-> FALSE]}

-----------------------------------------------------------------------------
(* The state machine: one ROM is loaded, then the tools' operations run on it *)

NoDpp == <<None, None, None, None>>

\* no operation is in progress and no result is pending
NoCall == [op |-> "none"]

-----------------------------------------------------------------------------
(* fls_compare.py: the byte comparison of two files *)

\* find_byte_differences, lines 178-201: the body of "while i < min_length"
\* for one i; st holds diff_start, match_start and differences
fbd_step(st, i, content1, content2, min_match_length) ==
    IF content1[i + 1] # content2[i + 1]
    THEN IF st.diff_start = None
         THEN [st EXCEPT !.diff_start = Some(i), !.match_start = None]
         ELSE IF st.match_start # None /\ i - Val(st.match_start) < min_match_length
         THEN [st EXCEPT !.match_start = None]
         ELSE st
    ELSE IF st.diff_start # None /\ st.match_start = None
         THEN [st EXCEPT !.match_start = Some(i)]
         ELSE IF /\ st.diff_start # None /\ st.match_start # None
                 /\ i - Val(st.match_start) >= min_match_length - 1
         THEN [diff_start |-> None, match_start |-> None,
               differences |-> Append(st.differences,
                   <<Val(st.diff_start), Val(st.match_start) - Val(st.diff_start)>>)]
         ELSE st

\* find_byte_differences, lines 177-201: the loop from i to min_length
RECURSIVE fbd_loop(_, _, _, _, _)
fbd_loop(st, i, content1, content2, min_match_length) ==
    IF i < Min({Len(content1), Len(content2)})
    THEN fbd_loop(fbd_step(st, i, content1, content2, min_match_length), i + 1,
                  content1, content2, min_match_length)
    ELSE st

\* find_byte_differences, lines 204-219: the difference still open at the end
fbd_end(st, min_length, min_match_length) ==
    IF st.diff_start = None THEN st.differences
    ELSE IF st.match_start # None /\ min_length - Val(st.match_start) >= min_match_length
    THEN Append(st.differences,
                <<Val(st.diff_start), Val(st.match_start) - Val(st.diff_start)>>)
    ELSE Append(st.differences, <<Val(st.diff_start), min_length - Val(st.diff_start)>>)

\* find_byte_differences, lines 222-225: the bytes one file has more than the other
fbd_tail(differences, content1, content2) ==
    IF Len(content1) > Len(content2)
    THEN Append(differences, <<Len(content2), Len(content1) - Len(content2)>>)
    ELSE IF Len(content2) > Len(content1)
    THEN Append(differences, <<Len(content1), Len(content2) - Len(content1)>>)
    ELSE differences

\* find_byte_differences(file1_path, file2_path, min_match_length) on the
\* contents of the two files
find_byte_differences(content1, content2, min_match_length) ==
    LET min_length == Min({Len(content1), Len(content2)})
        st == fbd_loop([diff_start |-> None, match_start |-> None, differences |-> <<>>],
                       0, content1, content2, min_match_length)
    IN  fbd_tail(fbd_end(st, min_length, min_match_length), content1, content2)

DEFAULT_MIN_MATCH_LENGTH == 16

\* main, lines 245-253: min_match_length from sys.argv[3], which is absent,
\* a word int() rejects, or an integer
main_min_match_length(arg) ==
    IF arg.kind = "absent" THEN DEFAULT_MIN_MATCH_LENGTH
    ELSE IF arg.kind = "word" THEN DEFAULT_MIN_MATCH_LENGTH
    ELSE IF arg.value < 1 THEN DEFAULT_MIN_MATCH_LENGTH
    ELSE arg.value

\* no scan loop is in progress
NoScan == [loop |-> "none", pc |-> "idle", offset |-> 0, map_count |-> 0, reported |-> <<>>]

\* dpp1_value = 0x0205, the default of me7_map_scanner.py
DEFAULT_DPP1 == 517

Init ==
    /\ rom \in Roms
    /\ dpp1_value = DEFAULT_DPP1
    /\ ms_pc = "run"
    /\ dpp_values = NoDpp
    /\ out = NoCall
    /\ scan = NoScan

\* me7_map_scanner.search(rom_data, needle, mask, start_offset)
Search ==
    /\ out = NoCall
    /\ ms_pc = "run"
    /\ Scannable(rom)
    /\ \E p \in Patterns : \E start_offset \in Starts :
        out' = [op |-> "search", needle |-> p[1], mask |-> p[2],
                start_offset |-> start_offset,
                result |-> search(rom, p[1], p[2], start_offset)]
    /\ UNCHANGED <<rom, dpp1_value, ms_pc, dpp_values, scan>>

\* ME7Scanner.search_pattern(needle, mask, start_offset)
SearchPattern ==
    /\ out = NoCall
    /\ Scannable(rom)
    /\ \E p \in Patterns : \E start_offset \in Starts :
        out' = [op |-> "search_pattern", needle |-> p[1], mask |-> p[2],
                start_offset |-> start_offset,
                result |-> search_pattern(rom, p[1], p[2], start_offset)]
    /\ UNCHANGED <<rom, dpp1_value, ms_pc, dpp_values, scan>>

\* ME7RomTool.find_pattern(pattern, mask), in and out of debug mode
FindPattern ==
    /\ out = NoCall
    /\ Scannable(rom)
    /\ \E p \in Patterns : \E debug \in BOOLEAN :
        out' = [op |-> "find_pattern", needle |-> p[1], mask |-> p[2],
                debug |-> debug,
                result |-> find_pattern(rom, p[1], p[2], debug)]
    /\ UNCHANGED <<rom, dpp1_value, ms_pc, dpp_values, scan>>

\* me7_map_scanner.check_dppx: sys.exit(1) when the setup is not found, else
\* dpp1_value is set from the ROM
CheckDppx ==
    /\ out = NoCall
    /\ ms_pc = "run"
    /\ Scannable(rom)
    /\ LET addr == check_dppx_addr(rom)
       IN  IF addr = None
           THEN /\ ms_pc' = "exit"
                /\ out' = [op |-> "check_dppx", addr |-> None, dpp |-> None]
                /\ UNCHANGED dpp1_value
           ELSE /\ dpp1_value' = check_dppx_values(rom, Val(addr))[2]
                /\ out' = [op |-> "check_dppx", addr |-> addr,
                           dpp |-> Some(check_dppx_values(rom, Val(addr)))]
                /\ UNCHANGED ms_pc
    /\ UNCHANGED <<rom, dpp_values, scan>>

\* the dpp_values left by ME7Scanner.get_dpp_values
get_dpp_values(data, dpp) ==
    LET offset == get_dpp_values_offset(data)
    IN  IF offset # None THEN get_dpp_values_read(data, Val(offset)) ELSE dpp

\* ME7Scanner.get_dpp_values
GetDppValues ==
    /\ out = NoCall
    /\ Scannable(rom)
    /\ dpp_values' = get_dpp_values(rom, dpp_values)
    /\ out' = [op |-> "get_dpp_values", dpp_offset |-> get_dpp_values_offset(rom),
               registers |-> get_dpp_values(rom, dpp_values)]
    /\ UNCHANGED <<rom, dpp1_value, ms_pc, scan>>

\* ME7RomTool.analyze_dppx_setup, in and out of debug mode
AnalyzeDppxSetup ==
    /\ out = NoCall
    /\ Scannable(rom)
    /\ \E debug \in BOOLEAN :
        out' = [op |-> "analyze_dppx_setup", debug |-> debug,
                offset |-> analyze_dppx_setup(rom, debug)[1],
                dpp |-> analyze_dppx_setup(rom, debug)[2]]
    /\ UNCHANGED <<rom, dpp1_value, ms_pc, dpp_values, scan>>

\* me7_map_scanner.calc_physical_address(segment, offset)
CalcPhysicalAddress ==
    /\ out = NoCall
    /\ ms_pc = "run"
    /\ \E segment \in Segments \cup {dpp1_value} : \E offset \in Offsets16 :
        out' = [op |-> "calc_physical_address", segment |-> segment, offset |-> offset,
                physical_addr |-> calc_physical_address(segment, offset)[1],
                rom_offset |-> calc_physical_address(segment, offset)[2]]
    /\ UNCHANGED <<rom, dpp1_value, ms_pc, dpp_values, scan>>

\* me7_map_scanner.dump_table(rom_data, table_addr, segment, table_def, override)
DumpTable ==
    /\ out = NoCall
    /\ ms_pc = "run"
    /\ \E table_addr \in Starts : \E segment \in Segments \cup {dpp1_value} :
       \E table_def \in TableDefs : \E override \in {0, 2} : \E show \in Shows :
        out' = [op |-> "dump_table", table_addr |-> table_addr, segment |-> segment,
                table_def |-> table_def, override |-> override, show |-> show,
                result |-> dump_table(rom, table_addr, segment, table_def, override, show)]
    /\ UNCHANGED <<rom, dpp1_value, ms_pc, dpp_values, scan>>

\* ME7Scanner.find_epk_info: it resolves the DPP values first when none is set.
\* Without the KWP2000 needle the fallback looks at offsets 0x10000..0x10FFF,
\* which no Scannable image has, and "EPK info pattern not found" is printed.
FindEpkInfo ==
    /\ out = NoCall
    /\ Scannable(rom)
    /\ LET kwp_offset == search_pattern(rom, kwp_needle, kwp_mask, 0)
           dpp == IF dpp_values = NoDpp THEN get_dpp_values(rom, dpp_values) ELSE dpp_values
       IN  IF kwp_offset # None
           THEN /\ dpp_values' = dpp
                /\ out' = [op |-> "find_epk_info", kwp_offset |-> kwp_offset,
                           result |-> find_epk_info_at(rom, Val(kwp_offset), dpp)]
           ELSE /\ dpp_values' = dpp_values
                /\ out' = [op |-> "find_epk_info", kwp_offset |-> None,
                           result |-> [file_offset |-> None, indexed |-> None,
                                       status |-> "EPK info pattern not found",
                                       epk |-> None]]
    /\ UNCHANGED <<rom, dpp1_value, ms_pc, scan>>

\* ME7Scanner.extract_map_data(offset)
ExtractMapData ==
    /\ out = NoCall
    /\ \E offset \in Starts \cup {5} :
        out' = [op |-> "extract_map_data", offset |-> offset,
                result |-> ME7Scanner_extract_map_data(rom, offset)]
    /\ UNCHANGED <<rom, dpp1_value, ms_pc, dpp_values, scan>>

\* MapDefinition(...) of me7romtool.py: cell grids of bytes or words, with or
\* without an x-axis
MapDefinitions ==
    {[address |-> a, width |-> w, height |-> h, data_type |-> t,
      value_multiplier |-> <<1, 1>>, x_axis_addr |-> xa, y_axis_addr |-> None,
      x_multiplier |-> <<1, 1>>, y_multiplier |-> <<1, 1>>] :
        a \in Starts, w \in 1..2, h \in 1..2, t \in {"byte", "word"}, xa \in {None, Some(3)}}

\* ME7RomTool.extract_map_data(map_def)
ToolExtractMapData ==
    /\ out = NoCall
    /\ \E map_def \in MapDefinitions :
        out' = [op |-> "tool_extract_map_data", map_def |-> map_def,
                result |-> ME7RomTool_extract_map_data(rom, map_def)]
    /\ UNCHANGED <<rom, dpp1_value, ms_pc, dpp_values, scan>>

\* map entries of me7_ferrari_scanner.py: a 3D map of x by y cells or a 2D table
MapEntries ==
    {[address |-> a, type |-> "3D", dimensions |-> <<x, y>>, valueType |-> t,
      factor |-> <<1, 1>>] : a \in Starts, x \in 1..2, y \in 1..2, t \in {"uint8", "int16"}}
    \cup {[address |-> a, type |-> "2D", dimensions |-> <<n>>, valueType |-> t,
           factor |-> <<1, 1>>] : a \in Starts, n \in 1..3, t \in {"uint8", "int16"}}

\* ME7RomAdvancedScanner.extract_map_table(map_def)
ExtractMapTable ==
    /\ out = NoCall
    /\ \E map_def \in MapEntries :
        out' = [op |-> "extract_map_table", map_def |-> map_def,
                result |-> extract_map_table(rom, map_def)]
    /\ UNCHANGED <<rom, dpp1_value, ms_pc, dpp_values, scan>>

\* cell values handed to the rejection rule
CellValues ==
    {<<0, 1>>, <<5, 1>>, <<7, 1>>, <<-5, 1>>, <<10000, 1>>, <<10001, 1>>, <<-10001, 1>>,
     PosInf, NegInf, NaN}

ValueLists == SeqsUpTo(CellValues, MaxValues)

\* ME7RomAdvancedScanner.has_reasonable_values(values): a function of its
\* argument alone, explored on the scanner that has no ROM loaded
HasReasonableValues ==
    /\ out = NoCall
    /\ RomLen(rom) = 0
    /\ \E values \in ValueLists :
        out' = [op |-> "has_reasonable_values", values |-> values,
                accepted |-> has_reasonable_values(values)]
    /\ UNCHANGED <<rom, dpp1_value, ms_pc, dpp_values, scan>>

\* cell values of the tables handed to identify_map
IdentifyCells ==
    {<<0, 1>>, <<1, 1>>, <<5, 1>>, <<10, 1>>, <<11, 1>>, <<-20, 1>>, <<-21, 1>>, <<60, 1>>,
     <<61, 1>>, <<600, 1>>, <<601, 1>>, <<7, 10>>, <<13, 10>>}

\* y rows of x cells that hold v, the first cell w
Grid(x, y, v, w) == [r \in 1..y |-> [c \in 1..x |-> IF r = 1 /\ c = 1 THEN w ELSE v]]

\* decoded tables as extract_map_table returns them: a "3D" map of x by y
\* cells or a "2D" table, found by signature (MAP_...) or under another name
IdentifyInputs ==
    {[name |-> n, address |-> 65536, type |-> "3D", dimensions |-> d, factor |-> <<1, 1>>,
      data |-> Grid(d[1], d[2], v, w)] :
        n \in {<<"MAP", 65536>>, <<"CUSTOM">>}, d \in {<<16, 16>>, <<16, 12>>, <<8, 8>>},
        v \in IdentifyCells, w \in IdentifyCells}
    \cup {[name |-> n, address |-> 65536, type |-> "2D", dimensions |-> d, factor |-> <<1, 1>>,
           data |-> Grid(d[1], 1, v, w)[1]] :
        n \in {<<"MAP", 65536>>, <<"CUSTOM">>}, d \in {<<16>>, <<32>>, <<8>>},
        v \in IdentifyCells, w \in IdentifyCells}

\* ME7RomAdvancedScanner.identify_map(map_data): a function of its argument
\* alone, explored on the scanner that has no ROM loaded
IdentifyMap ==
    /\ out = NoCall
    /\ RomLen(rom) = 0
    /\ \E map_data \in IdentifyInputs :
        out' = [op |-> "identify_map", map_data |-> map_data,
                identified |-> identify_map(map_data)]
    /\ UNCHANGED <<rom, dpp1_value, ms_pc, dpp_values, scan>>

\* ME7RomAdvancedScanner.find_all_potential_maps(): self.maps_tables
FindAllPotentialMaps ==
    /\ out = NoCall
    /\ MapScannable(rom)
    /\ out' = [op |-> "find_all_potential_maps", maps_tables |-> find_all_potential_maps(rom)]
    /\ UNCHANGED <<rom, dpp1_value, ms_pc, dpp_values, scan>>

\* me7_map_scanner.find_1d_maps(rom_data)
Find1dMaps ==
    /\ out = NoCall
    /\ Scannable(rom)
    /\ out' = [op |-> "find_1d_maps", maps |-> find_1d_maps(rom, 0, 0)]
    /\ UNCHANGED <<rom, dpp1_value, ms_pc, dpp_values, scan>>

\* me7_map_scanner.find_multi_map_type1(rom_data), under the show_* flags
FindMultiMapType1 ==
    /\ out = NoCall
    /\ Scannable(rom)
    /\ \E show \in Shows :
        out' = [op |-> "find_multi_map_type1", dumps |-> find_multi_map_type1(rom, 0, show)]
    /\ UNCHANGED <<rom, dpp1_value, ms_pc, dpp_values, scan>>

\* ME7Scanner.find_maps()
FindMaps ==
    /\ out = NoCall
    /\ Scannable(rom)
    /\ out' = [op |-> "find_maps", found |-> find_maps(rom, 0)]
    /\ UNCHANGED <<rom, dpp1_value, ms_pc, dpp_values, scan>>

\* the caller has taken the result; the next operation can start
\* the three matchers called with a needle and a mask of different lengths
SearchMismatched ==
    /\ out = NoCall
    /\ ms_pc = "run"
    /\ RomLen(rom) <= MaxNeedleLen + 1
    /\ \E p \in MismatchedPatterns : \E start_offset \in Starts :
        LET r == search_mismatched(rom, p[1], p[2], start_offset)
        IN  out' = [op |-> "search_mismatched", needle |-> p[1], mask |-> p[2],
                    start_offset |-> start_offset,
                    result |-> r.result, raised |-> r.raised, compared |-> r.compared]
    /\ UNCHANGED <<rom, dpp1_value, ms_pc, dpp_values, scan>>

SearchPatternMismatched ==
    /\ out = NoCall
    /\ RomLen(rom) <= MaxNeedleLen + 1
    /\ \E p \in MismatchedPatterns : \E start_offset \in Starts :
        LET r == search_pattern_unchecked(rom, p[1], p[2], start_offset)
        IN  out' = [op |-> "search_pattern_mismatched", needle |-> p[1], mask |-> p[2],
                    start_offset |-> start_offset,
                    result |-> r.result, raised |-> r.raised, compared |-> r.compared]
    /\ UNCHANGED <<rom, dpp1_value, ms_pc, dpp_values, scan>>

FindPatternMismatched ==
    /\ out = NoCall
    /\ RomLen(rom) <= MaxNeedleLen + 1
    /\ \E p \in MismatchedPatterns :
        LET r == find_pattern_mismatched(rom, p[1], p[2])
        IN  out' = [op |-> "find_pattern_mismatched", needle |-> p[1], mask |-> p[2],
                    result |-> r.result, raised |-> r.raised, compared |-> r.compared]
    /\ UNCHANGED <<rom, dpp1_value, ms_pc, dpp_values, scan>>

\* me7_map_scanner.check_multimap when the module holds the pair config for
\* mapfinder_needle and mapfinder_mask: the ValueError of search is caught
\* in find_1d_maps, which prints it, and the two other scans run
CheckMultimap ==
    /\ out = NoCall
    /\ ms_pc = "run"
    /\ Scannable(rom)
    /\ \E config \in MapfinderConfigs : \E show \in Shows :
        out' = [op |-> "check_multimap", needle |-> config[1], mask |-> config[2],
                raised |-> "",
                printed |-> IF search_raises(config[1], config[2])
                            THEN "Error in find_1d_maps" ELSE "",
                maps |-> IF search_raises(config[1], config[2]) THEN <<>>
                         ELSE find_1d_maps(rom, 0, 0),
                dumps |-> find_multi_map_type1(rom, 0, show),
                type2 |-> find_multi_map_type2(rom, 0, 0, dpp1_value, show)]
    /\ UNCHANGED <<rom, dpp1_value, ms_pc, dpp_values, scan>>

\* me7_map_scanner.main on a ROM file romfile, with or without --skip: the
\* module's globals are those the process already has
Main ==
    /\ out = NoCall
    /\ ms_pc = "run"
    /\ \E romfile \in RomFiles : \E skip \in BOOLEAN : \E show \in Shows :
        LET addr == IF skip THEN None ELSE check_dppx_addr(romfile)
            exits == ~skip /\ addr = None
            dpp1 == IF skip \/ addr = None THEN dpp1_value
                    ELSE check_dppx_values(romfile, Val(addr))[2]
        IN  /\ rom' = romfile
            /\ dpp1_value' = dpp1
            /\ ms_pc' = IF exits THEN "exit" ELSE "run"
            /\ dpp_values' = NoDpp
            /\ UNCHANGED scan
            /\ out' = [op |-> "main", skip |-> skip, addr |-> addr,
                       maps |-> IF exits THEN <<>> ELSE find_1d_maps(romfile, 0, 0),
                       dumps |-> IF exits THEN <<>>
                                 ELSE find_multi_map_type1(romfile, 0, show),
                       type2 |-> IF exits THEN <<>>
                                 ELSE find_multi_map_type2(romfile, 0, 0, dpp1, show)]

\* the buffers that differ from data only at positions i + j where byte j of
\* the pattern is a wildcard (mask[j] = 0)
WildcardVariants(data, mask, i) ==
    {Explicit(h) : h \in {g \in [1..RomLen(data) -> Alphabet] :
        \A k \in 1..RomLen(data) :
            \/ g[k] = ByteAt(data, k - 1)
            \/ (k - 1 - i \in 0..(Len(mask) - 1) /\ mask[k - i] = 0)}}

\* me7_map_scanner.search or ME7Scanner.search_pattern, by name
matcher_result(matcher, data, needle, mask, start_offset) ==
    IF matcher = "search" THEN search(data, needle, mask, start_offset)
    ELSE search_pattern(data, needle, mask, start_offset)

\* the buffer holds the pattern at offset i: the pattern ends inside the
\* buffer and every byte with a non-zero mask agrees with the needle
HoldsPatternAt(data, needle, mask, i) ==
    /\ i + Len(needle) <= RomLen(data)
    /\ \A j \in 1..Len(needle) : mask[j] = 0 \/ ByteAt(data, i + j - 1) = needle[j]

\* one matcher called from offset i on a ROM that holds the pattern at i and
\* on a buffer that differs from it under the wildcards of the pattern
SearchWildcardVariant ==
    /\ out = NoCall
    /\ ms_pc = "run"
    /\ RomLen(rom) <= MaxNeedleLen + 1
    /\ \E matcher \in {"search", "search_pattern"} : \E p \in Patterns :
       \E i \in 0..MaxTail : \E variant \in WildcardVariants(rom, p[2], i) :
        /\ HoldsPatternAt(rom, p[1], p[2], i)
        /\ out' = [op |-> "search_wildcard_variant", matcher |-> matcher,
                   needle |-> p[1], mask |-> p[2], start_offset |-> i,
                   variant |-> variant,
                   first |-> matcher_result(matcher, rom, p[1], p[2], i),
                   result |-> matcher_result(matcher, variant, p[1], p[2], i)]
    /\ UNCHANGED <<rom, dpp1_value, ms_pc, dpp_values, scan>>

\* ME7RomTool.SIZE_1MB and SIZE_512KB
SIZE_1MB == 1024 * 1024
SIZE_512KB == 512 * 1024

\* ME7RomTool._load_rom_file, lines 356-374: the mode flag, whether the
\* "Unusual ROM size" warning is printed, and the line that names the mode
load_rom_file(rom_data) ==
    LET rom_size == RomLen(rom_data)
    IN  IF rom_size = SIZE_1MB
        THEN [is_1mb_mode |-> TRUE, warning |-> FALSE,
              mode_message |-> "Loaded ROM: Tool in 1Mb Mode"]
        ELSE IF rom_size = SIZE_512KB
        THEN [is_1mb_mode |-> FALSE, warning |-> FALSE,
              mode_message |-> "Loaded ROM: Tool in 512Kb Mode"]
        ELSE IF rom_size > SIZE_512KB
        THEN [is_1mb_mode |-> TRUE, warning |-> TRUE,
              mode_message |-> "Assuming 1Mb Mode based on file size"]
        ELSE [is_1mb_mode |-> FALSE, warning |-> TRUE,
              mode_message |-> "Assuming 512Kb Mode based on file size"]

\* ME7RomAdvancedScanner.load_rom, lines 186-193: the line printed about the
\* mode; the scanner keeps no mode flag and returns True
load_rom(rom_data) ==
    LET rom_size == RomLen(rom_data)
    IN  [returned |-> TRUE,
         mode_message |-> IF rom_size = 1048576 THEN "Loaded ROM: Tool in 1Mb Mode"
                          ELSE IF rom_size = 2097152 THEN "Loaded ROM: Tool in 2Mb Mode"
                          ELSE "Unknown ROM size"]

\* ME7RomTool._load_rom_file on the image
LoadRomFile ==
    /\ out = NoCall
    /\ out' = [op |-> "load_rom_file", loaded |-> load_rom_file(rom)]
    /\ UNCHANGED <<rom, dpp1_value, ms_pc, dpp_values, scan>>

\* ME7RomAdvancedScanner.load_rom on the image
LoadRom ==
    /\ out = NoCall
    /\ out' = [op |-> "load_rom", loaded |-> load_rom(rom)]
    /\ UNCHANGED <<rom, dpp1_value, ms_pc, dpp_values, scan>>

Return ==
    /\ out # NoCall
    /\ out' = NoCall
    /\ UNCHANGED <<rom, dpp1_value, ms_pc, dpp_values, scan>>

Next ==
    \/ Search
    \/ SearchPattern
    \/ FindPattern
    \/ CheckDppx
    \/ GetDppValues
    \/ AnalyzeDppxSetup
    \/ CalcPhysicalAddress
    \/ DumpTable
    \/ FindEpkInfo
    \/ ExtractMapData
    \/ ToolExtractMapData
    \/ ExtractMapTable
    \/ HasReasonableValues
    \/ FindAllPotentialMaps
    \/ IdentifyMap
    \/ Find1dMaps
    \/ FindMultiMapType1
    \/ FindMaps
    \/ Main
    \/ SearchMismatched
    \/ SearchPatternMismatched
    \/ FindPatternMismatched
    \/ CheckMultimap
    \/ SearchWildcardVariant
    \/ LoadRomFile
    \/ LoadRom
    \/ Return

Spec == Init /\ [][Next]_vars

-----------------------------------------------------------------------------
(* The scan loops pass by pass: one scan of the Scannable image at a time *)

ScanLoops == {"find_maps", "find_1d_maps", "find_multi_map_type1", "find_multi_map_type2"}

\* the pass of the named loop
scan_step(loop, rom_data, offset, map_count) ==
    IF loop = "find_maps" THEN find_maps_step(rom_data, offset, map_count)
    ELSE IF loop = "find_1d_maps" THEN find_1d_maps_step(rom_data, offset, map_count)
    ELSE IF loop = "find_multi_map_type1"
    THEN find_multi_map_type1_step(rom_data, offset, map_count)
    ELSE find_multi_map_type2_step(rom_data, offset, map_count)

ScanInit == Init /\ Scannable(rom)

\* a scan is called: offset = 0, map_count = 0
ScanStart ==
    /\ scan.pc = "idle"
    /\ \E loop \in ScanLoops :
        scan' = [loop |-> loop, pc |-> "search", offset |-> 0, map_count |-> 0,
                 reported |-> <<>>]
    /\ UNCHANGED <<rom, dpp1_value, ms_pc, dpp_values, out>>

\* one pass of the loop of the scan in progress
ScanPass(loop) ==
    /\ scan.pc = "search" /\ scan.loop = loop
    /\ \E next \in {scan_step(loop, rom, scan.offset, scan.map_count)} :
        scan' = [loop |-> loop, pc |-> next.pc, offset |-> next.offset,
                 map_count |-> next.map_count,
                 reported |-> IF next.match = None THEN scan.reported
                              ELSE Append(scan.reported, Val(next.match))]
    /\ UNCHANGED <<rom, dpp1_value, ms_pc, dpp_values, out>>

FindMapsPass == ScanPass("find_maps")
Find1dMapsPass == ScanPass("find_1d_maps")
FindMultiMapType1Pass == ScanPass("find_multi_map_type1")
FindMultiMapType2Pass == ScanPass("find_multi_map_type2")

\* the scan returns to its caller
ScanReturn ==
    /\ scan.pc = "done"
    /\ scan' = NoScan
    /\ UNCHANGED <<rom, dpp1_value, ms_pc, dpp_values, out>>

ScanNext ==
    \/ ScanStart
    \/ FindMapsPass
    \/ Find1dMapsPass
    \/ FindMultiMapType1Pass
    \/ FindMultiMapType2Pass
    \/ ScanReturn

\* a running Python function takes its next step: the passes of a scan are
\* not delayed for ever
ScanSpec == ScanInit /\ [][ScanNext]_vars /\ WF_vars(ScanNext)

-----------------------------------------------------------------------------
(* fls_compare.py, a program of its own: two files are compared *)

MaxFileLen == 5        \* longest file compared
MaxMinMatch == 3       \* largest min_match_length given explicitly

FileBytes == {0, 1}
Files == SeqsUpTo(FileBytes, MaxFileLen)

\* sys.argv[3]: absent, not an integer, or an integer
Argv3 ==
    {[kind |-> "absent", value |-> 0], [kind |-> "word", value |-> 0]}
        \cup {[kind |-> "int", value |-> v] : v \in -1..MaxMinMatch}

\* the scanners are not running: no image is loaded
CompareInit == Init /\ RomLen(rom) = 0

\* find_byte_differences(file1_path, file2_path, min_match_length)
FindByteDifferences ==
    /\ out = NoCall
    /\ \E content1 \in Files : \E content2 \in Files : \E min_match_length \in 1..MaxMinMatch :
        out' = [op |-> "find_byte_differences", content1 |-> content1, content2 |-> content2,
                min_match_length |-> min_match_length,
                differences |-> find_byte_differences(content1, content2, min_match_length)]
    /\ UNCHANGED <<rom, dpp1_value, ms_pc, dpp_values, scan>>

\* fls_compare.main up to its call of find_byte_differences
FlsCompareMain ==
    /\ out = NoCall
    /\ \E content1 \in Files : \E content2 \in Files : \E arg \in Argv3 :
        out' = [op |-> "fls_compare_main", content1 |-> content1, content2 |-> content2,
                min_match_length |-> main_min_match_length(arg),
                differences |-> find_byte_differences(content1, content2,
                                                      main_min_match_length(arg))]
    /\ UNCHANGED <<rom, dpp1_value, ms_pc, dpp_values, scan>>

CompareNext ==
    \/ FindByteDifferences
    \/ FlsCompareMain
    \/ Return

CompareSpec == CompareInit /\ [][CompareNext]_vars

-----------------------------------------------------------------------------
(* The documented contracts the claims compare the code with *)

\* PatternMatcher.search of the specification: the smallest i >= startOffset
\* with i + L <= len(buffer) whose significant bytes all agree, else None
first_offset(buffer, needle, mask, startOffset) ==
    LET hits == {i \in startOffset..(RomLen(buffer) - Len(needle)) :
                    \A j \in 1..Len(needle) :
                        mask[j] = 0 \/ ByteAt(buffer, i + j - 1) = needle[j]}
    IN  IF hits = {} THEN None ELSE Some(Min(hits))

\* the four little-endian words at p+2, p+6, p+10, p+14
dpp_words(buffer, p) ==
    <<Word(buffer, p + 2), Word(buffer, p + 6), Word(buffer, p + 10), Word(buffer, p + 14)>>

\* AddressTranslator.translate of the specification
translate(dpp, offset16, romSizeBytes) ==
    AndNot((dpp * 16384) + offset16,
           IF romSizeBytes = 1048576 THEN 1048576 ELSE 15728640)

\* one past the last byte of the table ME7Scanner.extract_map_data returned as
\* r from offset: counts, x-axis, y-axis, cells
emd_table_end(offset, r) ==
    offset + r.x_num_width + r.y_num_width
    + (r.x_size * r.x_axis_width) + (r.y_size * r.y_axis_width)
    + ((IF r.y_size > 0 THEN r.x_size * r.y_size ELSE r.x_size) * r.cell_width)

-----------------------------------------------------------------------------
(* The claims *)

\* C1: for every buffer, every pattern with needle and mask of one length
\* L > 0 and every start offset, each matcher returns the smallest offset
\* i >= start with i + L <= len(buffer) at which all significant bytes agree,
\* and no match only when there is no such offset.  (find_pattern takes no
\* start offset; its first element is compared with the search from 0.)
C1_SearchReturnsFirstMatch ==
    /\ out.op \in {"search", "search_pattern"} =>
          out.result = first_offset(rom, out.needle, out.mask, out.start_offset)
    /\ out.op = "find_pattern" =>
          LET first == first_offset(rom, out.needle, out.mask, 0)
          IN  IF first = None THEN out.result = <<>>
              ELSE out.result # <<>> /\ out.result[1] = Val(first)

\* C2: in the 32-byte buffer of 16 zero bytes followed by
\* E6 00 05 02 E6 01 05 02 E6 02 E0 00 E6 03 03 00 the DPP setup is found at
\* offset 16 with DPP0..DPP3 = 0x0205, 0x0205, 0x00E0, 0x0003.
C2_Buffer == Explicit(Zeros(16) \o DppSetup(<<517, 517, 224, 3>>))

C2_DppScenario ==
    rom = C2_Buffer =>
        /\ out.op = "check_dppx" =>
              out.addr = Some(16) /\ out.dpp = Some(<<517, 517, 224, 3>>)
        /\ out.op = "get_dpp_values" =>
              /\ out.dpp_offset = Some(16)
              /\ out.registers = <<Some(517), Some(517), Some(224), Some(3)>>

\* C3: whenever the DPP setup template occurs in the buffer, the resolver
\* reports the offset p of its first occurrence and, as DPP0..DPP3, the
\* little-endian words stored at p+2, p+6, p+10 and p+14 of that buffer.
C3_DppReadFromBuffer ==
    LET p == first_offset(rom, dpp_needle, dpp_mask, 0)
    IN  p # None =>
            /\ out.op = "check_dppx" =>
                  out.addr = p /\ out.dpp = Some(dpp_words(rom, Val(p)))
            /\ out.op = "analyze_dppx_setup" =>
                  out.offset = p /\ out.dpp = Some(dpp_words(rom, Val(p)))

\* C3, for ME7RomTool.analyze_dppx_setup alone: what it reports is read from
\* the buffer.
C3_AnalyzeReadsBuffer ==
    LET p == first_offset(rom, dpp_needle, dpp_mask, 0)
    IN  (p # None /\ out.op = "analyze_dppx_setup") =>
            out.offset = p /\ out.dpp = Some(dpp_words(rom, Val(p)))

\* C4: the translated address is (dpp * 0x4000 + offset16) & ~mask, with mask
\* 0x100000 for a ROM of 1,048,576 bytes and 0xF00000 for any other size: the
\* mask follows the size of the ROM being analysed.
C4_MaskFollowsRomSize ==
    out.op = "calc_physical_address" =>
        out.rom_offset = translate(out.segment, out.offset, RomLen(rom))

\* C5: translating dpp = 0x0205, offset16 = 0 for a 1 MiB ROM gives the
\* linear address 0x14000.
C5_Translate0205 ==
    (out.op = "calc_physical_address" /\ RomLen(rom) = 1048576
     /\ out.segment = 517 /\ out.offset = 0) =>
        out.rom_offset = 81920

\* C6: a translated address indexes the ROM only if 0 <= linear < len(ROM);
\* for any other value an out-of-range result is reported and nothing is read
\* there, whatever the DPP values (DPP1 = 0 included).
C6_OnlyValidAddressesIndexed ==
    /\ (out.op = "find_epk_info" /\ out.result.indexed # None) =>
          is_valid_table_address(Val(out.result.indexed), RomLen(rom))
    /\ (out.op = "find_epk_info" /\ out.result.file_offset # None
        /\ ~is_valid_table_address(Val(out.result.file_offset), RomLen(rom))) =>
          out.result.status = "EPK address out of range"
    /\ (out.op = "dump_table"
        /\ ~is_valid_table_address(
                calc_physical_address(out.segment, out.table_addr)[2], RomLen(rom))) =>
          out.result.status = "Table address out of range"

\* C7: when a count, an axis element or a cell of the table lies at or beyond
\* the end of the buffer, the decoder returns an error; it never returns a
\* table in which that element is zero or left out.
C7_TruncatedIsAnError ==
    /\ (out.op = "extract_map_data" /\ out.result.error = "") =>
          emd_table_end(out.offset, out.result) <= RomLen(rom)
    /\ (out.op = "tool_extract_map_data" /\ out.result.ok
        /\ out.result.x_axis # None) =>
          Len(Val(out.result.x_axis)) = out.map_def.width
    /\ (out.op = "dump_table" /\ out.result.status = "dumped") =>
          ~out.result.cell_warning

\* C8: a table whose x-count or y-count read from the header exceeds 50 is
\* rejected, and no axis or cell data is decoded from it.
C8_CeilingRejects ==
    /\ (out.op = "extract_map_data" /\ out.result.error = "") =>
          out.result.x_size <= MAX_DIM /\ out.result.y_size <= MAX_DIM
    /\ (out.op = "dump_table"
        /\ LET counts == dump_header(rom, out.table_addr, out.segment, out.table_def)
           IN  counts[1] > MAX_DIM \/ counts[2] > MAX_DIM) =>
          out.result.status # "dumped"

\* C9: a table whose last cell byte is at index len(buffer) - 1 is decoded,
\* every value read from the buffer; placed so that its last cell byte is at
\* index len(buffer) it is refused.
C9_BoundaryOfTheCellGrid ==
    /\ out.op = "tool_extract_map_data" =>
          LET d == out.map_def
              size == DATA_TYPES_size(d.data_type)
              grid_end == d.address + (d.width * d.height * size)
          IN  /\ grid_end = RomLen(rom) =>
                    /\ out.result.ok
                    /\ \A y \in 1..d.height : \A x \in 1..d.width :
                          out.result.raw_data[y][x] =
                              unpack_unsigned(rom, d.address
                                                   + ((y - 1) * d.width + (x - 1)) * size, size)
              /\ grid_end = RomLen(rom) + 1 => ~out.result.ok
    /\ (out.op = "extract_map_table" /\ out.map_def.type = "3D") =>
          LET d == out.map_def
              grid_end == d.address + (d.dimensions[1] * d.dimensions[2]
                                       * value_type_size(d.valueType))
          IN  /\ grid_end = RomLen(rom) => out.result # None
              /\ grid_end = RomLen(rom) + 1 => out.result = None
    /\ (out.op = "extract_map_data" /\ out.result.error = ""
        /\ out.result.x_size > 0) =>
          emd_table_end(out.offset, out.result) # RomLen(rom) + 1

\* C10: with the descriptor x-count width 1, no axes, cell width 1 and divisor
\* 10, the buffer 03 0A 14 1E at address 0 is dumped as a 1D table of raw
\* cells 10, 20, 30 and physical cells 1.0, 2.0, 3.0; each physical value
\* times 10 is the raw value.
C10_Descriptor ==
    WithCell(TableDef(1, 0, 0, 0, 1), [conv |-> <<10, 1>>, otype |-> "/", conv2 |-> None])

C10_Case ==
    /\ out.op = "dump_table"
    /\ rom.head = <<3, 10, 20, 30>>
    /\ out.table_addr = 0 /\ out.segment = 0 /\ out.override = 0
    /\ out.table_def = C10_Descriptor

C10_ScaledOneDimensional ==
    C10_Case =>
        /\ out.result.status = "dumped"
        /\ out.result.x_num = 3 /\ out.result.y_num = 0
        /\ Len(out.result.rows) = 1
        /\ out.show.hex =>
              out.result.rows[1].hex = Some(<<Some(10), Some(20), Some(30)>>)
        /\ out.show.phy =>
              /\ out.result.rows[1].phy
                    = Some(<<Some(<<1, 1>>), Some(<<2, 1>>), Some(<<3, 1>>)>>)
              /\ \A i \in 1..3 :
                    FracMul(Val(Val(out.result.rows[1].phy)[i]), <<10, 1>>)
                        = FracOfInt(ByteAt(rom, i))

\* C10 witness: the four-byte buffer has been dumped with the descriptor, raw
\* and physical rows printed
C10_Witness ==
    /\ C10_Case
    /\ rom = Explicit(<<3, 10, 20, 30>>)
    /\ out.show.hex /\ out.show.phy
    /\ out.result.status = "dumped"
    /\ out.result.rows[1].hex = Some(<<Some(10), Some(20), Some(30)>>)

\* C11: the rejection rule refuses a list of cell values that is empty, whose
\* values are all identical, all exactly zero, or all of magnitude above
\* 10,000, and accepts every other list.
C11_Rejected(values) ==
    \/ values = <<>>
    \/ \A i, j \in 1..Len(values) : FloatEq(values[i], values[j])
    \/ \A i \in 1..Len(values) : FloatEq(values[i], <<0, 1>>)
    \/ \A i \in 1..Len(values) : FloatLt(<<10000, 1>>, FloatAbs(values[i]))

C11_RejectionRule ==
    out.op = "has_reasonable_values" => (out.accepted <=> ~C11_Rejected(out.values))

\* C11, for lists of finite values only
C11_RejectionRuleFinite ==
    (out.op = "has_reasonable_values"
     /\ \A i \in 1..Len(out.values) : out.values[i][2] # 0) =>
        (out.accepted <=> ~C11_Rejected(out.values))

\* C12: on every scan path the rejection rule comes before fingerprint
\* matching: a table whose cells fail the rejection rule is given no name and
\* is not in the reported list of maps and tables.
C12_RejectedNeverReported ==
    out.op = "find_all_potential_maps" =>
        \A k \in 1..Len(out.maps_tables) : is_valid_map(out.maps_tables[k])

\* C12 for the tables found at the known addresses (those with a catalogue
\* name that identify_map did not give)
C12_KnownPathFiltered ==
    out.op = "find_all_potential_maps" =>
        \A k \in 1..Len(out.maps_tables) :
            out.maps_tables[k].address \in {218624} => is_valid_map(out.maps_tables[k])

C12_KnownPathReached ==
    /\ out.op = "find_all_potential_maps"
    /\ \E k \in 1..Len(out.maps_tables) : out.maps_tables[k].address = 218624

\* the fingerprints that identify_map tests, in the order of the catalogue
\* KNOWN_MAPS_TABLES; MLHFM is tested on its dimensions only
C13_Fingerprints ==
    <<[name |-> "KFMIOP", type |-> "3D", dimensions |-> <<16, 16>>, ranged |-> TRUE, lo |-> <<0, 1>>, hi |-> <<10, 1>>],
      [name |-> "KFZWOP", type |-> "3D", dimensions |-> <<16, 16>>, ranged |-> TRUE, lo |-> <<-20, 1>>, hi |-> <<60, 1>>],
      [name |-> "KFMIRL", type |-> "3D", dimensions |-> <<16, 12>>, ranged |-> TRUE, lo |-> <<0, 1>>, hi |-> <<600, 1>>],
      [name |-> "KFLDRL", type |-> "2D", dimensions |-> <<16>>, ranged |-> TRUE, lo |-> <<7, 10>>, hi |-> <<13, 10>>],
      [name |-> "MLHFM", type |-> "2D", dimensions |-> <<32>>, ranged |-> FALSE, lo |-> <<0, 1>>, hi |-> <<0, 1>>]>>

\* every cell of the table m
C13_Cells(m) == IF m.type = "3D" THEN flat_data(m.data) ELSE m.data

\* the table m has the dimensions of fingerprint k and every cell in its range
C13_Fits(m, k) ==
    LET f == C13_Fingerprints[k]
    IN  /\ m.type = f.type
        /\ m.dimensions = f.dimensions
        /\ f.ranged => \A i \in 1..Len(C13_Cells(m)) : FloatBetween(f.lo, C13_Cells(m)[i], f.hi)

\* the signatures of identify_map_type that lie within search_range of offset
C13_Present(data, offset) ==
    {k \in 1..Len(signatures) :
        Contains(data, signatures[k].signature, Max2(0, offset - search_range),
                 Min2(RomLen(data), offset + search_range))}

\* C13: a table that satisfies more than one fingerprint gets the identity
\* that is earlier in catalogue order, and the identity is a function of the
\* input: identify_map on the decoded values, identify_map_type on the
\* signatures near the table.
C13_EarlierFingerprintWins ==
    /\ out.op = "identify_map" =>
          LET fits == {k \in 1..Len(C13_Fingerprints) : C13_Fits(out.map_data, k)}
          IN  fits # {} => out.identified.name = <<C13_Fingerprints[Min(fits)].name>>
    /\ out.op = "extract_map_data" =>
          LET present == C13_Present(rom, out.offset)
          IN  present # {} => out.result.name = signatures[Min(present)].map_type

\* a 16x16 table with every cell in [0, 10] fits the fuel and the ignition
\* fingerprint and is named KFMIOP
C13_Witness ==
    /\ out.op = "identify_map"
    /\ C13_Fits(out.map_data, 1) /\ C13_Fits(out.map_data, 2)
    /\ out.identified.name = <<"KFMIOP">>

\* two signatures lie near the table and the earlier one names it
C13_TwoSignatures ==
    /\ out.op = "extract_map_data"
    /\ Cardinality(C13_Present(rom, out.offset)) = 2
    /\ out.result.name = "KFPED"

\* C14: identify_map gives a table a catalogue name only if the table has the
\* dimensions of that fingerprint and every cell value lies within the
\* inclusive value range of that fingerprint; this holds for every entry of
\* the catalogue.
C14_NamedOnlyWithinRange ==
    out.op = "identify_map" =>
        \A k \in 1..Len(C13_Fingerprints) :
            out.identified.name = <<C13_Fingerprints[k].name>> =>
                /\ out.map_data.type = C13_Fingerprints[k].type
                /\ out.map_data.dimensions = C13_Fingerprints[k].dimensions
                /\ C13_Fingerprints[k].ranged
                /\ \A i \in 1..Len(C13_Cells(out.map_data)) :
                      FloatBetween(C13_Fingerprints[k].lo, C13_Cells(out.map_data)[i],
                                   C13_Fingerprints[k].hi)

\* C14 for the four fingerprints that identify_map tests on their values
C14_RangedFingerprints ==
    out.op = "identify_map" =>
        \A k \in 1..4 :
            out.identified.name = <<C13_Fingerprints[k].name>> => C13_Fits(out.map_data, k)

\* the table of 32 words that the signature scan finds and reports as MLHFM
C14_ReportedByScan ==
    /\ out.op = "find_all_potential_maps"
    /\ \E k \in 1..Len(out.maps_tables) :
          /\ out.maps_tables[k].name = <<"MLHFM">>
          /\ \E i \in 1..32 : out.maps_tables[k].data[i] = <<20000, 1>>

\* no fingerprint of the catalogue fits the table m
C15_NoFingerprint(m) == \A k \in 1..Len(C13_Fingerprints) : ~C13_Fits(m, k)

\* C15: a decoded table that passes the rejection rule and matches no
\* fingerprint is returned under the synthesized name TABLE_<hex-address>_<dims>,
\* for 1D and 2D tables alike.
C15_FallbackNameIsTable ==
    (/\ out.op = "identify_map"
     /\ out.map_data.name[1] = "MAP"
     /\ is_valid_map(out.map_data)
     /\ C15_NoFingerprint(out.map_data)) =>
        out.identified.name = <<"TABLE", out.map_data.address>> \o out.map_data.dimensions

\* C15 as the code has it: a table found by signature (MAP_...) that passes the
\* rejection rule and matches no fingerprint is named TABLE_<hex-address>_<n>
\* when it has one dimension and MAP3D_<hex-address>_<x>x<y> when it has two;
\* a table that came under another name keeps it; the cells are returned
\* unchanged.
C15_FallbackName ==
    (/\ out.op = "identify_map"
     /\ is_valid_map(out.map_data)
     /\ C15_NoFingerprint(out.map_data)) =>
        /\ out.identified.data = out.map_data.data
        /\ out.identified.name =
              IF out.map_data.name[1] # "MAP" THEN out.map_data.name
              ELSE IF Len(out.map_data.dimensions) = 1
                   THEN <<"TABLE", out.map_data.address, out.map_data.dimensions[1]>>
                   ELSE <<"MAP3D", out.map_data.address, out.map_data.dimensions[1],
                          out.map_data.dimensions[2]>>

\* an 8x8 map of varying cells found by signature gets a MAP3D name
C15_Witness ==
    /\ out.op = "identify_map"
    /\ is_valid_map(out.map_data)
    /\ C15_NoFingerprint(out.map_data)
    /\ out.map_data.dimensions = <<8, 8>>
    /\ out.identified.name = <<"MAP3D", 65536, 8, 8>>

\* the offsets p at which the matcher, started at p, finds the pattern at p
C16_MatchesOfSearch(needle, mask) ==
    Ascending({p \in 0..RomLen(rom) : search(rom, needle, mask, p) = Some(p)})

C16_MatchesOfSearchPattern(needle, mask) ==
    Ascending({p \in 0..RomLen(rom) : search_pattern(rom, needle, mask, p) = Some(p)})

\* C16: a scan for all occurrences of a pattern resumes at previousMatch + 1, so
\* every offset at which the pattern matches, one that overlaps an earlier
\* match included, is reported exactly once and in ascending order.
C16_EveryMatchReported ==
    /\ out.op = "find_1d_maps" =>
          [k \in 1..Len(out.maps) |-> out.maps[k].addr]
              = C16_MatchesOfSearch(mapfinder_needle, mapfinder_mask)
    /\ out.op = "find_multi_map_type1" =>
          [k \in 1..Len(out.dumps) |-> out.dumps[k].addr]
              = C16_MatchesOfSearch(mapfinder_xy2_needle, mapfinder_xy2_mask)
    /\ out.op = "find_maps" =>
          [k \in 1..Len(out.found) |-> out.found[k].needle_offset]
              = C16_MatchesOfSearchPattern(map_table_needle, map_table_mask)

\* offs holds matches only, each at least len bytes after the one before, and
\* every match is in offs or begins inside a match that offs holds
C16_Chain(offs, len, IsMatch(_), complete) ==
    /\ \A k \in 1..Len(offs) : IsMatch(offs[k])
    /\ \A k \in 1..(Len(offs) - 1) : offs[k] + len <= offs[k + 1]
    /\ complete =>
          \A p \in 0..RomLen(rom) :
              IsMatch(p) => \E k \in 1..Len(offs) : offs[k] <= p /\ p < offs[k] + len

\* C16 as the code has it: each scan resumes at previousMatch + pattern length.
\* The offsets reported are offsets that the matcher finds, in ascending order
\* and at least a pattern length apart (so each once), and every offset that
\* the matcher finds is reported unless it begins inside a reported match;
\* find_1d_maps stops after MAX_TABLE_SEARCHES matches.
C16_NonOverlappingMatchesReported ==
    /\ out.op = "find_1d_maps" =>
          C16_Chain([k \in 1..Len(out.maps) |-> out.maps[k].addr], Len(mapfinder_needle),
                    LAMBDA p : search(rom, mapfinder_needle, mapfinder_mask, p) = Some(p),
                    Len(out.maps) < MAX_TABLE_SEARCHES)
    /\ out.op = "find_multi_map_type1" =>
          C16_Chain([k \in 1..Len(out.dumps) |-> out.dumps[k].addr],
                    Len(mapfinder_xy2_needle),
                    LAMBDA p : search(rom, mapfinder_xy2_needle, mapfinder_xy2_mask, p) = Some(p),
                    TRUE)
    /\ out.op = "find_maps" =>
          C16_Chain([k \in 1..Len(out.found) |-> out.found[k].needle_offset],
                    Len(map_table_needle),
                    LAMBDA p : search_pattern(rom, map_table_needle, map_table_mask, p) = Some(p),
                    TRUE)

\* a scan has reported a match and left out the match that overlaps it
C16_Witness ==
    /\ out.op = "find_1d_maps"
    /\ Len(out.maps) = 1
    /\ out.maps[1].addr = 0
    /\ search(rom, mapfinder_needle, mapfinder_mask, 2) = Some(2)

\* the DPP setup template occurs nowhere in the buffer
C17_NoTemplate == first_offset(rom, dpp_needle, dpp_mask, 0) = None

\* C17: when the DPP setup template does not occur in the buffer, the
\* resolver reports that nothing was found: the process is not terminated,
\* no DPP values are returned in place of the missing ones, and the scan can
\* still run with the default DPP1.
C17_NotFoundIsNotFatal ==
    /\ (out.op = "check_dppx" /\ C17_NoTemplate) =>
          /\ out.addr = None /\ out.dpp = None
          /\ ms_pc = "run" /\ dpp1_value = DEFAULT_DPP1
    /\ (out.op = "get_dpp_values" /\ C17_NoTemplate) =>
          out.dpp_offset = None /\ out.registers = NoDpp
    /\ (out.op = "analyze_dppx_setup" /\ C17_NoTemplate) =>
          out.offset = None /\ out.dpp = None

\* C17, for ME7Scanner.get_dpp_values alone: nothing found leaves every DPP
\* value unset.
C17_GetDppValuesNotFound ==
    (out.op = "get_dpp_values" /\ C17_NoTemplate) =>
        out.dpp_offset = None /\ out.registers = NoDpp

\* C17, for check_dppx alone: the process goes on after a failed resolution.
C17_CheckDppxGoesOn ==
    (out.op = "check_dppx" /\ out.addr = None) => ms_pc = "run"

\* C17, for analyze_dppx_setup alone: no values without the template.
C17_AnalyzeReturnsEmpty ==
    (out.op = "analyze_dppx_setup" /\ C17_NoTemplate) => out.dpp = None

\* the DPP1 that ROM k's own analysis gives: read from its buffer when the
\* resolution ran and found the setup, the default 0x0205 otherwise
C18_OwnDpp1(skip) ==
    LET p == check_dppx_addr(rom)
    IN  IF ~skip /\ p # None THEN check_dppx_values(rom, Val(p))[2] ELSE DEFAULT_DPP1

\* C18: in any sequence of ROM analyses of one process, the DPP1 used to
\* translate addresses while ROM k is scanned is the one resolved from ROM
\* k's buffer, or the default when the resolution was skipped or found
\* nothing: never a value resolved from a ROM analysed before.
C18_Dpp1OfThisRom ==
    out.op = "main" =>
        \A i \in 1..Len(out.type2) :
            out.type2[i].segment \in {None, Some(C18_OwnDpp1(out.skip))}

\* C18, for analyses that resolve the DPP values: the DPP1 used is read from
\* the ROM being scanned.
C18_Dpp1WhenResolved ==
    (out.op = "main" /\ ~out.skip) =>
        \A i \in 1..Len(out.type2) :
            out.type2[i].segment \in {None, Some(C18_OwnDpp1(FALSE))}

\* a scan that translated with a DPP1 resolved from its own ROM
C18_OwnDpp1Used ==
    /\ out.op = "main" /\ ~out.skip
    /\ \E i \in 1..Len(out.type2) : out.type2[i].segment = Some(0)

\* the error results of the three scans
C19_Errors1d == {"Invalid map address", "Invalid count", "Table extends beyond file boundary"}
C19_ErrorsType1 ==
    {"Table address out of range", "X-num address out of range", "Y-num address out of range",
     "X-axis data extends beyond file boundary", "Y-axis data extends beyond file boundary"}

\* every match after a rejected candidate is reported
C19_AllLater(offs, bad, IsMatch(_)) ==
    \A i \in 1..Len(offs) : bad[i] =>
        \A q \in (offs[i] + 1)..RomLen(rom) :
            IsMatch(q) => \E k \in 1..Len(offs) : offs[k] = q

C19_LaterUnlessInside(offs, bad, len, IsMatch(_), complete) ==
    \A i \in 1..Len(offs) : (bad[i] /\ complete) =>
        \A q \in (offs[i] + 1)..RomLen(rom) :
            IsMatch(q) => \E k \in 1..Len(offs) : offs[k] <= q /\ q < offs[k] + len

C19_WitnessType1 ==
    /\ out.op = "find_multi_map_type1"
    /\ Len(out.dumps) = 2
    /\ out.dumps[1].status = "Table address out of range"
    /\ out.dumps[2].status = "dumped"

C19_WitnessFindMaps ==
    /\ out.op = "find_maps"
    /\ Len(out.found) = 2
    /\ out.found[1].map_data.error # ""
    /\ out.found[2].map_data.error = ""

\* C20: a needle and a mask of different lengths are a fatal error raised
\* before anything is scanned: no matcher compares a byte of the buffer with
\* such a pair, none answers with an ordinary result, and no scan swallows
\* the error and goes on.
C20_MismatchFailsFast ==
    /\ out.op \in {"search_mismatched", "search_pattern_mismatched",
                    "find_pattern_mismatched"} =>
          out.raised = "ValueError" /\ ~out.compared
    /\ (out.op = "check_multimap" /\ Len(out.needle) # Len(out.mask)) =>
          out.raised = "ValueError"

\* C20, for me7_map_scanner.search alone
C20_SearchFailsFast ==
    out.op = "search_mismatched" => out.raised = "ValueError" /\ ~out.compared

\* C20, for ME7Scanner.search_pattern alone
C20_SearchPatternFailsFast ==
    out.op = "search_pattern_mismatched" => out.raised = "ValueError" /\ ~out.compared

\* C20, for ME7RomTool.find_pattern alone
C20_FindPatternFailsFast ==
    out.op = "find_pattern_mismatched" => out.raised = "ValueError" /\ ~out.compared

\* C20, for check_multimap alone
C20_CheckMultimapFails ==
    (out.op = "check_multimap" /\ Len(out.needle) # Len(out.mask)) =>
        out.raised = "ValueError"

\* search_pattern answers a mismatched pair with a match
C20_OrdinaryMatch ==
    /\ out.op = "search_pattern_mismatched"
    /\ out.raised = ""
    /\ out.result # None


\* the buffer is empty or shorter than the pattern searched in it
C21_NothingToSearch ==
    /\ out.op \in {"search", "search_pattern", "find_pattern"}
    /\ (RomLen(rom) = 0 \/ Len(out.needle) > RomLen(rom))

\* C21: a search on an empty buffer, or for a pattern longer than the buffer,
\* returns no match (None, and [] from find_pattern) and raises no error, for
\* every start offset >= 0 and in each of the three matchers.
C21_NoMatchNoError ==
    C21_NothingToSearch =>
        /\ out.op \in {"search", "search_pattern"} => out.result = None
        /\ out.op = "find_pattern" => out.result = <<>>
        /\ out.op = "search_pattern" =>
              search_pattern_unchecked(rom, out.needle, out.mask, out.start_offset) =
                  [result |-> None, raised |-> "", compared |-> FALSE]

\* search_pattern looked for a two byte pattern in a buffer of one byte
C21_Witness ==
    /\ out.op = "search_pattern" /\ out.result = None
    /\ RomLen(rom) = 1 /\ Len(out.needle) = 2 /\ out.start_offset = 0
    /\ ByteAt(rom, 0) = 0 /\ out.needle = <<0, 0>> /\ out.mask = <<MASK, MASK>>

\* each matcher searched an empty buffer
C21_WitnessEmpty(op) == out.op = op /\ RomLen(rom) = 0
C21_WitnessEmptySearch == C21_WitnessEmpty("search")
C21_WitnessEmptyFindPattern == C21_WitnessEmpty("find_pattern")


\* C22: if a pattern matches buffer B at offset i (i + L <= len(B) and every
\* significant byte agrees), a search from i in any buffer B' that differs
\* from B only under the wildcards of the pattern placed at i returns i.
C22_WildcardBytesIrrelevant ==
    (out.op = "search_wildcard_variant"
     /\ first_offset(rom, out.needle, out.mask, out.start_offset) = Some(out.start_offset)) =>
        out.result = Some(out.start_offset)

\* C22, for the matches the matcher itself finds at i: the search from i in
\* B' returns what it returns in B
C22_FoundMatchKept ==
    (out.op = "search_wildcard_variant" /\ out.first = Some(out.start_offset)) =>
        out.result = Some(out.start_offset)

\* a match at 0 was found again after the byte under the wildcard changed
C22_Witness ==
    /\ out.op = "search_wildcard_variant" /\ out.first = Some(0) /\ out.result = Some(0)
    /\ out.mask = <<MASK, 0>> /\ ByteAt(rom, 1) # ByteAt(out.variant, 1)


\* the mode whose nominal size is nearest to n bytes: "1Mb", "512Kb", or
\* either of them in the middle
C23_Nearest(n) ==
    IF Abs(n - 1048576) < Abs(n - 524288) THEN {"1Mb"}
    ELSE IF Abs(n - 1048576) > Abs(n - 524288) THEN {"512Kb"}
    ELSE {"1Mb", "512Kb"}

\* the mode a loader selected, as it names it
C23_Mode ==
    IF out.op = "load_rom_file"
    THEN (IF out.loaded.is_1mb_mode THEN "1Mb" ELSE "512Kb")
    ELSE IF out.loaded.mode_message = "Loaded ROM: Tool in 1Mb Mode" THEN "1Mb"
    ELSE IF out.loaded.mode_message = "Loaded ROM: Tool in 2Mb Mode" THEN "2Mb"
    ELSE "none"

\* C23: a ROM of 1,048,576 bytes selects 1 MiB mode, one of 524,288 bytes
\* selects 512 KiB mode, and a ROM of any other size is accepted and given
\* the mode whose nominal size is nearest to its length.
C23_ModeBySize ==
    out.op \in {"load_rom_file", "load_rom"} =>
        IF RomLen(rom) = 1048576 THEN C23_Mode = "1Mb"
        ELSE IF RomLen(rom) = 524288 THEN C23_Mode = "512Kb"
        ELSE C23_Mode \in C23_Nearest(RomLen(rom))

\* C23, for the two nominal sizes in ME7RomTool: the mode is as claimed and
\* no warning is printed
C23_NominalSizes ==
    (out.op = "load_rom_file" /\ RomLen(rom) \in {524288, 1048576}) =>
        /\ out.loaded.is_1mb_mode = (RomLen(rom) = 1048576)
        /\ ~out.loaded.warning

\* C23, for ME7RomTool alone
C23_ToolModeBySize ==
    out.op = "load_rom_file" => C23_ModeBySize

\* C23, as ME7RomTool decides for the other sizes: a warning, and 1 MiB mode
\* exactly for the files longer than 512 KiB
C23_ThresholdMode ==
    (out.op = "load_rom_file" /\ RomLen(rom) \notin {524288, 1048576}) =>
        /\ out.loaded.warning
        /\ out.loaded.is_1mb_mode = (RomLen(rom) > 524288)


\* the `width` bytes of the unsigned value v, low byte first
C24_Encode(v, width) == [k \in 1..width |-> (v \div Pow2(8 * (k - 1))) % 256]

\* the bytes of a list of values of one width, one after the other
C24_EncodeAll(values, width) ==
    Flatten([k \in 1..Len(values) |-> C24_Encode(values[k], width)])

\* the raw fields of a decoded table in layout order: counts, x-axis, y-axis,
\* cell rows
C24_Reencode(r) ==
    C24_Encode(r.x_size, r.x_num_width) \o C24_Encode(r.y_size, r.y_num_width)
    \o C24_EncodeAll(r.x_axis_data, r.x_axis_width)
    \o C24_EncodeAll(r.y_axis_data, r.y_axis_width)
    \o Flatten([y \in 1..Len(r.cell_data) |-> C24_EncodeAll(r.cell_data[y], r.cell_width)])

\* extract_map_data decoded a table that lies wholly inside the buffer
C24_Contained ==
    /\ out.op = "extract_map_data" /\ out.result.error = ""
    /\ emd_table_end(out.offset, out.result) <= RomLen(rom)

\* C24: for a table wholly inside the buffer, with counts <= 50 and fields of
\* 1 or 2 bytes, the raw counts, x-axis, y-axis and cells that
\* extract_map_data returns, written back little-endian in layout order, are
\* exactly the bytes of the buffer from the table address to the end of the
\* cell grid.
C24_RoundTrip ==
    C24_Contained =>
        C24_Reencode(out.result) =
            [k \in 1..(emd_table_end(out.offset, out.result) - out.offset) |->
                ByteAt(rom, out.offset + k - 1)]

\* a two-dimensional table of two byte fields whose cell has a high byte
C24_Witness ==
    /\ C24_Contained
    /\ out.result.cell_width = 2 /\ out.result.x_size = 1 /\ out.result.y_size = 1
    /\ out.result.cell_data = <<<<265>>>>

\* a one-dimensional table of one byte fields: no y-axis, one row of cells
C24_WitnessOneDimensional ==
    /\ C24_Contained
    /\ out.result.y_size = 0 /\ out.result.x_size = 2


\* the unsigned little-endian value of `width` bytes at addr
C25_At(addr, width) ==
    IF width = 1 THEN ByteAt(rom, addr) ELSE ByteAt(rom, addr) + 256 * ByteAt(rom, addr + 1)

\* C25 for ME7Scanner.extract_map_data, on a table inside the buffer: the
\* x-axis follows the counts, the y-axis the x-axis, and the cells follow the
\* axes row by row (one row of x_size cells for a one-dimensional table)
C25_ExtractRowMajor ==
    (out.op = "extract_map_data" /\ out.result.error = ""
     /\ emd_table_end(out.offset, out.result) <= RomLen(rom)) =>
        LET r == out.result
            xStart == out.offset + r.x_num_width + r.y_num_width
            yStart == xStart + r.x_size * r.x_axis_width
            cellStart == yStart + r.y_size * r.y_axis_width
        IN  /\ \A x \in 1..r.x_size :
                r.x_axis_data[x] = C25_At(xStart + (x - 1) * r.x_axis_width, r.x_axis_width)
            /\ \A y \in 1..r.y_size :
                r.y_axis_data[y] = C25_At(yStart + (y - 1) * r.y_axis_width, r.y_axis_width)
            /\ \A y \in 1..Len(r.cell_data) : \A x \in 1..r.x_size :
                r.cell_data[y][x] =
                    C25_At(cellStart + ((y - 1) * r.x_size + (x - 1)) * r.cell_width, r.cell_width)

\* dump_table printed the physical values of a table whose cells follow its axes
C25_Dumped ==
    /\ out.op = "dump_table" /\ out.result.status = "dumped"
    /\ out.override = 0 /\ out.show.phy /\ ~out.result.cell_warning

\* the address after the axes of the table dump_table printed
C25_CellStart ==
    calc_physical_address(out.segment, out.table_addr)[2]
    + out.table_def.x_num_nwidth + out.table_def.y_num_nwidth
    + out.result.x_num * out.table_def.x_axis_nwidth
    + out.result.y_num * out.table_def.y_axis_nwidth

\* the value dump_table prints for the cell stored at the given index
C25_Printed(index) ==
    Some(convert_value(C25_At(C25_CellStart + index * out.table_def.cell_nwidth,
                              out.table_def.cell_nwidth),
                       out.table_def.cell))

\* C25 for dump_table: the cell printed in row y, column x is the one stored
\* at cellStart + (y * xCount + x) * cellWidth; a one-dimensional table has
\* its single row right after the x-axis
C25_DumpRowMajor ==
    C25_Dumped =>
        LET res == out.result
        IN  IF res.y_num = 0
            THEN \A x \in 1..res.x_num : Val(res.rows[1].phy)[x] = C25_Printed(x - 1)
            ELSE \A y \in 1..res.y_num : \A x \in 1..res.x_num :
                    res.rows[y] # None =>
                        Val(Val(res.rows[y]).phy)[x] = C25_Printed((y - 1) * res.x_num + (x - 1))

\* C25: in a two-dimensional table the x-axis starts right after the counts,
\* the y-axis right after the x-axis, and the cell of row y, column x is read
\* from cellStart + (y * xCount + x) * cellWidth (row-major), cellStart being
\* the end of the y-axis; in a one-dimensional table the single row of xCount
\* cells starts right after the x-axis.
C25_RowMajorLayout ==
    /\ C25_ExtractRowMajor
    /\ C25_DumpRowMajor

\* C25 for the one-dimensional tables dump_table prints
C25_DumpOneDimensional ==
    (C25_Dumped /\ out.result.y_num = 0) => C25_DumpRowMajor

\* what dump_table does: the cell printed in row y, column x is the one
\* stored at cellStart + (x * yCount + y) * cellWidth
C25_DumpColumnMajor ==
    (C25_Dumped /\ out.result.y_num > 0) =>
        \A y \in 1..out.result.y_num : \A x \in 1..out.result.x_num :
            out.result.rows[y] # None =>
                Val(Val(out.result.rows[y]).phy)[x] =
                    C25_Printed((x - 1) * out.result.y_num + (y - 1))

\* dump_table printed a table of two rows and two columns
C25_TwoByTwo ==
    C25_Dumped /\ out.result.x_num = 2 /\ out.result.y_num = 2


\* the rows of a grid number `rows` and each has `columns` cells
C26_Shape(grid, rows, columns) ==
    Len(grid) = rows /\ \A y \in 1..rows : Len(grid[y]) = columns

\* C26: every table decoded without error has a raw and a scaled cell grid
\* of the same dimensions: yCount rows of xCount cells when yCount > 0, and
\* exactly one row of xCount cells when yCount = 0.
C26_GridDimensions ==
    /\ (out.op = "extract_map_data" /\ out.result.error = "") =>
          LET r == out.result
              rows == IF r.y_size > 0 THEN r.y_size ELSE 1
          IN  /\ C26_Shape(r.cell_data, rows, r.x_size)
              /\ C26_Shape(r.cell_data_conv, rows, r.x_size)
    /\ (out.op = "tool_extract_map_data" /\ out.result.ok) =>
          /\ C26_Shape(out.result.raw_data, out.map_def.height, out.map_def.width)
          /\ C26_Shape(out.result.scaled_data, out.map_def.height, out.map_def.width)

\* a table without y dimension was decoded into one row of two cells
C26_Witness ==
    /\ out.op = "extract_map_data" /\ out.result.error = ""
    /\ out.result.y_size = 0 /\ out.result.x_size = 2
    /\ C26_Shape(out.result.cell_data, 1, 2)

\* a table of two rows and two columns was decoded by each decoder
C26_WitnessRows ==
    /\ out.op = "extract_map_data" /\ out.result.error = ""
    /\ out.result.y_size = 2 /\ out.result.x_size = 2
C26_WitnessTool ==
    /\ out.op = "tool_extract_map_data" /\ out.result.ok
    /\ out.map_def.height = 2 /\ out.map_def.width = 2


\* the offsets find_multi_map_type2 reported
C27_Reported == [k \in 1..Len(out.type2) |-> out.type2[k].addr]

\* the matches of the 24-byte pattern when each search starts at the end of
\* the match before it
RECURSIVE C27_FromEndOfMatch(_)
C27_FromEndOfMatch(start) ==
    LET f == search(rom, mapfinder_xy3_needle, mapfinder_xy3_mask, start)
    IN  IF f = None THEN <<>>
        ELSE <<Val(f)>> \o C27_FromEndOfMatch(Val(f) + Len(mapfinder_xy3_needle))

\* the matches of the 24-byte pattern when each search starts at the sum of
\* the ends of all matches before it
RECURSIVE C27_FromSumOfEnds(_)
C27_FromSumOfEnds(start) ==
    LET f == search(rom, mapfinder_xy3_needle, mapfinder_xy3_mask, start)
    IN  IF f = None THEN <<>>
        ELSE <<Val(f)>> \o C27_FromSumOfEnds(start + Val(f) + Len(mapfinder_xy3_needle))

\* find_multi_map_type2 ran on the image (in main, unless the process exited)
C27_Scanned ==
    \/ out.op = "check_multimap"
    \/ out.op = "main" /\ ms_pc = "run"

\* C27: in find_multi_map_type2 the search after a match at f starts at
\* f + 24 in every iteration, so every occurrence of the pattern that begins
\* at or after the end of the previously reported match is reported (up to
\* MAX_TABLE_SEARCHES matches).
C27_NextSearchAtEndOfMatch ==
    C27_Scanned =>
        /\ C27_Reported = C27_FromEndOfMatch(0)
        /\ \A k \in 1..Len(C27_Reported) :
              \A q \in (C27_Reported[k] + Len(mapfinder_xy3_needle))..RomLen(rom) :
                 search(rom, mapfinder_xy3_needle, mapfinder_xy3_mask, q) = Some(q) =>
                    \E j \in 1..Len(C27_Reported) : C27_Reported[j] = q

\* C27, for the first iteration: the second search starts at the end of the
\* first match
C27_SecondSearchAtEndOfFirst ==
    (C27_Scanned /\ Len(C27_Reported) >= 1) =>
        LET second == search(rom, mapfinder_xy3_needle, mapfinder_xy3_mask,
                             C27_Reported[1] + Len(mapfinder_xy3_needle))
        IN  IF second = None THEN Len(C27_Reported) = 1
            ELSE Len(C27_Reported) >= 2 /\ C27_Reported[2] = Val(second)

\* what find_multi_map_type2 does: new_offset grows by f + 24 at every match
C27_SearchAtSumOfEnds ==
    C27_Scanned => C27_Reported = C27_FromSumOfEnds(0)

\* two of three adjacent call sequences were reported
C27_TwoOfThree ==
    /\ out.op = "check_multimap" /\ C27_Reported = <<0, 24>>
    /\ search(rom, mapfinder_xy3_needle, mapfinder_xy3_mask, 48) = Some(48)



\* C28: every pattern-scan loop (find_maps, find_1d_maps,
\* find_multi_map_type1, find_multi_map_type2) terminates on every finite
\* buffer: from one pass of a loop to the next the search start offset
\* strictly increases, whatever branch the pass left its candidate through.
C28_OffsetIncreases ==
    [][(scan.pc = "search" /\ scan'.pc = "search") => scan'.offset > scan.offset]_vars

\* C28: a scan in progress reaches the end of its loop
C28_Terminates == (scan.pc = "search") ~> (scan.pc = "done")

C28_ScanLoopsTerminate == C28_OffsetIncreases /\ C28_Terminates

\* C28: the passes report the matches the loops report
C28_StepsAreTheLoop ==
    (scan.pc = "done" /\ scan.loop = "find_1d_maps") =>
        scan.reported = [k \in 1..Len(find_1d_maps(rom, 0, 0)) |-> find_1d_maps(rom, 0, 0)[k].addr]

\* C28: find_1d_maps starts its second pass after a candidate it rejected
\* through a continue branch
C28_Witness ==
    /\ scan.loop = "find_1d_maps" /\ scan.pc = "search" /\ scan.map_count = 1
    /\ scan.offset = scan.reported[1] + Len(mapfinder_needle)
    /\ find_1d_maps_entry(rom, scan.reported[1]).status = "Invalid map address"

C28_WitnessDone ==
    /\ scan.pc = "done" /\ scan.map_count >= 2



\* the first element of the list find_pattern returns, the empty list
\* standing for no match
C29_First(matches) == IF matches = <<>> THEN None ELSE Some(matches[1])

\* a call of one of the three matchers from offset 0
C29_FromZero ==
    /\ out.op \in {"search", "search_pattern", "find_pattern"}
    /\ out.op # "find_pattern" => out.start_offset = 0

\* C29: the three pattern matchers are interchangeable: for the same buffer,
\* needle and mask (equal lengths, mask bytes 0x00 or 0xFF) searched from
\* offset 0, search_pattern, search and the first element of find_pattern
\* give the same result.
C29_Interchangeable ==
    C29_FromZero =>
        /\ search(rom, out.needle, out.mask, 0) = search_pattern(rom, out.needle, out.mask, 0)
        /\ search_pattern(rom, out.needle, out.mask, 0)
               = C29_First(find_pattern(rom, out.needle, out.mask, FALSE))
        /\ C29_First(find_pattern(rom, out.needle, out.mask, TRUE))
               = C29_First(find_pattern(rom, out.needle, out.mask, FALSE))

\* C29, the part that holds: search and search_pattern agree with each
\* other, and find_pattern gives the same first element in and out of debug
\* mode
C29_SearchAndSearchPatternAgree ==
    C29_FromZero =>
        /\ search(rom, out.needle, out.mask, 0) = search_pattern(rom, out.needle, out.mask, 0)
        /\ C29_First(find_pattern(rom, out.needle, out.mask, TRUE))
               = C29_First(find_pattern(rom, out.needle, out.mask, FALSE))

\* C29, the behaviour of the code: find_pattern differs from the two others
\* exactly when the first occurrence of the pattern ends at the last byte of
\* the buffer, which it reports and they do not
C29_DifferAtLastOffset ==
    C29_FromZero =>
        LET first == C29_First(find_pattern(rom, out.needle, out.mask, FALSE))
        IN  IF first # None /\ Val(first) = RomLen(rom) - Len(out.needle)
            THEN search(rom, out.needle, out.mask, 0) = None
            ELSE search(rom, out.needle, out.mask, 0) = first

\* C29: search has returned no match from offset 0 for a pattern that
\* find_pattern reports
C29_SearchMissesWhatFindPatternFinds ==
    /\ out.op = "search" /\ out.start_offset = 0 /\ out.result = None
    /\ find_pattern(rom, out.needle, out.mask, FALSE) # <<>>

\* C29: the three matchers agree on a match inside the buffer
C29_AllThreeFind ==
    /\ out.op = "find_pattern" /\ out.result # <<>>
    /\ search(rom, out.needle, out.mask, 0) = Some(out.result[1])
    /\ search_pattern(rom, out.needle, out.mask, 0) = Some(out.result[1])



\* a comparison of two files has returned its regions
C30_Compared == out.op \in {"find_byte_differences", "fls_compare_main"}

\* the bytes at index i of the two files differ
C30_Differ(i) == out.content1[i + 1] # out.content2[i + 1]

\* the length of the shorter file
C30_MinLength == Min({Len(out.content1), Len(out.content2)})

\* index i lies inside the k-th reported region
C30_Inside(i, k) ==
    /\ out.differences[k][1] <= i
    /\ i < out.differences[k][1] + out.differences[k][2]

\* each index below the shorter length at which the files differ lies inside
\* some reported region
C30_Covered ==
    \A i \in 0..(C30_MinLength - 1) :
        C30_Differ(i) => \E k \in 1..Len(out.differences) : C30_Inside(i, k)

\* the regions are reported in ascending order without overlap
C30_Ascending ==
    \A k \in 1..(Len(out.differences) - 1) :
        out.differences[k][1] + out.differences[k][2] <= out.differences[k + 1][1]

\* a run a..b of matching bytes shorter than min_match_length between two
\* differing bytes lies, with the two, inside one region
C30_NoSplit ==
    \A a \in 1..(C30_MinLength - 2) : \A b \in a..(C30_MinLength - 2) :
        ( /\ b - a + 1 < out.min_match_length
          /\ C30_Differ(a - 1) /\ C30_Differ(b + 1)
          /\ \A i \in a..b : ~C30_Differ(i) )
        => \E k \in 1..Len(out.differences) : C30_Inside(a - 1, k) /\ C30_Inside(b + 1, k)

\* C30: find_byte_differences, for every min_match_length >= 1 and every
\* pair of byte strings: each index below the shorter length at which the
\* two files differ lies inside some reported region; regions are reported
\* in ascending order without overlap; and a run of matching bytes shorter
\* than min_match_length between two differing bytes does not split a region.
C30_DifferencesReported ==
    C30_Compared => C30_Covered /\ C30_Ascending /\ C30_NoSplit

\* C30, the part that holds for every min_match_length: order, no overlap
\* and no split by a short run
C30_OrderedAndUnsplit ==
    C30_Compared => C30_Ascending /\ C30_NoSplit

\* C30, the part that holds from min_match_length 2 on: every differing
\* index is covered
C30_CoveredFromTwo ==
    (C30_Compared /\ out.min_match_length >= 2) => C30_Covered

\* C30: with min_match_length 1 a differing byte that follows a single
\* matching byte is outside every region
C30_DifferenceLost ==
    /\ out.op = "find_byte_differences" /\ out.min_match_length = 1
    /\ Len(out.content1) = 3 /\ Len(out.content2) = 3
    /\ C30_Differ(0) /\ ~C30_Differ(1) /\ C30_Differ(2)
    /\ out.differences = <<<<0, 1>>>>

\* C30: a short run of matching bytes is kept inside one region
C30_ShortRunKept ==
    /\ out.op = "fls_compare_main" /\ out.min_match_length = 2
    /\ Len(out.content1) = 3 /\ Len(out.content2) = 4
    /\ C30_Differ(0) /\ ~C30_Differ(1) /\ C30_Differ(2)
    /\ out.differences = <<<<0, 3>>, <<3, 1>>>>

=============================================================================
